---- MODULE Spec2Model ----
(***************************************************************************)
(* Match4Research matching core: the FAISS-backed VectorStore              *)
(* (src/src/vector_store.py) and the MatchingEngine                        *)
(* (src/src/matching_engine.py).                                           *)
(*                                                                         *)
(* Numbers.  Similarities and scores are fixed-point hundredths: 80 is     *)
(* 0.80.  Stored unit vectors are in tenths (Scale), so the inner product  *)
(* of two unit vectors is directly a similarity in hundredths.  The final  *)
(* score is in units of 1/10000 (weight in hundredths times sub-score in   *)
(* hundredths).  Python strings are TLA+ strings; Lower, Chars and         *)
(* Contains give str.lower() and the substring test on the vocabulary.     *)
(***************************************************************************)
EXTENDS Integers, Sequences, FiniteSets, TLC

----------------------------------------------------------------------------
(* Bounds of the model *)

\* dimension of the embeddings (config.EMBEDDING_DIMENSION, scaled down)
Dim == 4
\* add_embeddings is not called once the metadata list holds this many entries
MaxMeta == 4
\* largest k given to VectorStore.search
MaxK == 2
\* largest top_k given to MatchingEngine.find_recommendations
MaxTopK == 2
\* longest candidate list given to apply_compatibility_filters on its own
MaxCands == 2

----------------------------------------------------------------------------
(* Python values *)

\* a key that a dict does not hold
Absent == "<absent>"

\* dict.get(key, default)
Get(rec, key, default) == IF rec[key] = Absent THEN default ELSE rec[key]

\* str.lower() on the vocabulary of the model
Lower(s) ==
    CASE s = "Active" -> "active"
      [] s = "ACTIVE" -> "active"
      [] s = "Cancelled" -> "cancelled"
      [] s = "Freelancer" -> "freelancer"
      [] OTHER -> s

\* the pieces a string is made of, as far as substring tests can tell
Chars(s) ==
    CASE s = "student/early-career" -> <<"student", "/", "early-career">>
      [] s = "professional/consultant" -> <<"professional", "/", "consultant">>
      [] s = "researcher/academic" -> <<"research", "er", "/", "academic">>
      [] s = "researcher" -> <<"research", "er">>
      [] s = "funding-opportunity" -> <<"funding", "-", "opportunity">>
      [] s = "research-funding" -> <<"research", "-", "funding">>
      [] s = "[\"student\"]" -> <<"[\"", "student", "\"]">>
      [] s = "[\"professional\"]" -> <<"[\"", "professional", "\"]">>
      [] s = "[\"research\"]" -> <<"[\"", "research", "\"]">>
      [] s = "[\"student/early-career\"]" ->
             <<"[\"", "student", "/", "early-career", "\"]">>
      [] s = "[\"professional\", \"student\"]" ->
             <<"[\"", "professional", "\", \"", "student", "\"]">>
      [] s = "\"student\"" -> <<"\"", "student", "\"">>
      [] s = "student, professional" -> <<"student", ", ", "professional">>
      [] OTHER -> <<s>>

\* Python's  sub in s  for two strings
Contains(sub, s) ==
    LET a == Chars(sub)
        b == Chars(s)
    IN  \E i \in 0..(Len(b) - Len(a)) :
            \A j \in 1..Len(a) : b[i + j] = a[j]

\* Python's  x in list
InList(x, l) == \E i \in 1..Len(l) : l[i] = x

\* max(0, x)
Max0(x) == IF x > 0 THEN x ELSE 0

RECURSIVE SeqSum(_)
SeqSum(s) == IF s = <<>> THEN 0 ELSE Head(s) + SeqSum(Tail(s))

----------------------------------------------------------------------------
(* Vectors *)

\* fixed-point scale of a unit vector's components (tenths)
Scale == 2 * 5

\* a vector of the configured dimension from its leading components
Pad(v) == [i \in 1..Dim |-> IF i <= Len(v) THEN v[i] ELSE 0]

\* inner product
Dot(u, v) == SeqSum([i \in 1..Len(u) |-> u[i] * v[i]])

ISqrt(n) == CHOOSE r \in 0..n : r * r <= n /\ (r + 1) * (r + 1) > n

\* np.linalg.norm
Norm(v) == ISqrt(Dot(v, v))

\* (mutation of Normalize: the embedding is stored as delivered)
NormalizeSkipped(v) == v

\* embedding / np.linalg.norm(embedding), in units of 1/Scale
Normalize(v) ==
    LET n == Norm(v)
    IN  [i \in 1..Len(v) |-> (v[i] * Scale) \div n]

\* the distance FAISS reports for a result slot it could not fill
\* (-FLT_MAX, clipped to the integers TLC has)
NegFltMax == 0 - 2147483647

----------------------------------------------------------------------------
(* Entity records *)

\* the applicantTypes field: a list, a string (meant to be JSON) or missing
ATList(items) == [kind |-> "list", items |-> items, text |-> "", num |-> 0]
ATStr(text) == [kind |-> "str", items |-> <<>>, text |-> text, num |-> 0]
ATNum(n) == [kind |-> "num", items |-> <<>>, text |-> "", num |-> n]
ATNull == [kind |-> "null", items |-> <<>>, text |-> "", num |-> 0]
ATAbsent == [kind |-> "absent", items |-> <<>>, text |-> "", num |-> 0]

\* the raw attribute record of an entity (original_data); prefs is the set
\* of keys of the 'preferences' dict that hold a truthy value
Rec(type, location, status, at, delivery, duration, prefs, budget) ==
    [type |-> type, location |-> location, status |-> status,
     applicantTypes |-> at, delivery |-> delivery, duration |-> duration,
     preferences |-> prefs, budget |-> budget]

DataOf(name) ==
    CASE name = "S" -> Rec("student/early-career", "Romania", Absent, ATAbsent,
                           Absent, Absent, {"grantFundedProjects"}, Absent)
      [] name = "O" -> Rec("publicInstitution", "other", Absent, ATAbsent,
                           Absent, Absent, {"collaborations", "funding"}, Absent)
      [] name = "N" -> Rec(Absent, Absent, Absent, ATAbsent,
                           Absent, Absent, {}, Absent)
      [] name = "A" -> Rec(Absent, Absent, "active", ATList(<<"student">>),
                           "online-virtual", "short-term", {}, "5000")
      [] name = "B" -> Rec(Absent, Absent, "active", ATList(<<"professional">>),
                           "in-person", "long-term", {}, Absent)
      [] name = "C" -> Rec("funding-opportunity", "Romania", "cancelled",
                           ATList(<<"student">>), "hybrid", "medium-term", {},
                           "Not specified")
      [] name = "E" -> Rec("funding-opportunity", "Romania", "active",
                           ATList(<<"student">>), "in-person", "short-term", {},
                           Absent)
      [] name = "P" -> Rec("professional/consultant", "other", Absent, ATAbsent,
                           Absent, Absent, {"consulting", "opportunities"},
                           Absent)
      [] name = "D" -> Rec("fellowship", "Romania", "Active", ATAbsent,
                           Absent, Absent, {}, Absent)
      [] name = "X" -> Rec("funding-opportunity", "other", "", ATAbsent,
                           "hybrid", "short-term", {}, Absent)
      [] name = "F" -> Rec("Freelancer", "Romania", Absent, ATAbsent,
                           Absent, Absent, {"opportunities"}, Absent)

\* raw embeddings as the Embedding Provider delivers them (not normalized)
VecOf(name) ==
    CASE name = "S" -> Pad(<<2>>)
      [] name = "O" -> Pad(<<0, 5>>)
      [] name = "A" -> Pad(<<8, 6>>)
      [] name = "B" -> Pad(<<9, 3, 3, 1>>)
      [] name = "C" -> Pad(<<3, 4>>)
      [] name = "E" -> Pad(<<7, 7, 1, 1>>)
      [] name = "D" -> Pad(<<-6, 8>>)
      [] name = "X" -> [i \in 1..(Dim + 1) |-> IF i = 1 THEN 1 ELSE 0]
      [] OTHER -> <<>>

\* an item of embeddings_data: N has neither 'id' nor 'embedding'
ItemOf(name) ==
    [id |-> IF name = "N" THEN Absent ELSE "id_" \o name,
     has_embedding |-> name # "N",
     embedding |-> VecOf(name),
     original_data |-> DataOf(name)]

\* embeddings_data dicts: entity type -> list of items, in dict order
Group(kind, names) ==
    [kind |-> kind, items |-> [i \in 1..Len(names) |-> ItemOf(names[i])]]

EmbeddingsData(name) ==
    CASE name = "scenario" -> <<Group("individuals", <<"S">>),
                                Group("project_calls", <<"A", "B">>)>>
      [] name = "orgs" -> <<Group("project_calls", <<"C">>),
                            Group("organizations", <<"O", "N">>)>>
      [] name = "more" -> <<Group("project_calls", <<"E", "D">>)>>
      [] name = "baddim" -> <<Group("project_calls", <<"X">>)>>
      [] name = "mixeddim" -> <<Group("project_calls", <<"D", "X">>)>>
      [] name = "noemb" -> <<Group("organizations", <<"N">>)>>

DataNames == {"scenario", "orgs", "more", "baddim", "mixeddim", "noemb"}

\* the (entity type, item) pairs of an embeddings_data dict in iteration order
RECURSIVE Flat(_)
Flat(data) ==
    IF data = <<>> THEN <<>>
    ELSE [i \in 1..Len(Head(data).items) |->
             [kind |-> Head(data).kind, item |-> Head(data).items[i]]]
         \o Flat(Tail(data))

\* (mutation of ItemsOfKind: the items of every entity type)
ItemsOfAnyKind(data, kind) ==
    LET f == Flat(data)
    IN  [i \in 1..Len(f) |-> f[i].item]

\* embeddings_data.get(kind, [])
ItemsOfKind(data, kind) ==
    LET f == Flat(data)
        RECURSIVE Pick(_)
        Pick(i) == IF i > Len(f) THEN <<>>
                   ELSE (IF f[i].kind = kind THEN <<f[i].item>> ELSE <<>>)
                        \o Pick(i + 1)
    IN  Pick(1)

----------------------------------------------------------------------------
(* VectorStore: src/src/vector_store.py *)

\* self.index = None
NoIndex == [created |-> FALSE, d |-> 0, xb |-> <<>>]

\* VectorStore.__init__
NewStore ==
    [index |-> NoIndex, metadata |-> <<>>, id_to_index |-> {},
     embedding_dimension |-> Dim, is_built |-> FALSE]

\* create_index: an empty faiss.IndexFlatIP of the configured dimension
CreateIndex(st) ==
    [st EXCEPT !.index = [created |-> TRUE, d |-> st.embedding_dimension,
                          xb |-> <<>>]]

\* id_to_index[entity_id] = position   (a dict as a set of <<key, value>>)
Put(map, key, value) == {p \in map : p[1] # key} \cup {<<key, value>>}

RECURSIVE PutAll(_, _)
PutAll(map, mds) ==
    IF mds = <<>> THEN map
    ELSE PutAll(Put(map, Head(mds).entity_id, Head(mds).index_position),
                Tail(mds))

\* the metadata dict add_embeddings builds for the j-th item that has an
\* embedding; current_index starts at 0 in every call
MetadataEntry(e, j) ==
    [entity_id |-> Get(e.item, "id", e.kind \o "_" \o ToString(j - 1)),
     entity_type |-> e.kind,
     index_position |-> j - 1,
     original_data |-> e.item.original_data]

\* np.array(all_embeddings) raises on rows of different lengths, and
\* index.add asserts that the row length is the index's dimension
AddRaises(index, rows) ==
    \E i \in 1..Len(rows) : Len(rows[i]) # index.d

\* add_embeddings(embeddings_data) -> [st: the store afterwards, ret: bool]
AddEmbeddings(st0, data) ==
    LET st == IF st0.index.created THEN st0 ELSE CreateIndex(st0)
        all == Flat(data)
        withEmb == SelectSeq(all, LAMBDA e : e.item.has_embedding)
        rows == [j \in 1..Len(withEmb) |-> Normalize(withEmb[j].item.embedding)]
        mds == [j \in 1..Len(withEmb) |-> MetadataEntry(withEmb[j], j)]
        looped == [st EXCEPT !.metadata = st.metadata \o mds,
                             !.id_to_index = PutAll(st.id_to_index, mds)]
    IN  IF Len(rows) = 0 THEN [st |-> looped, ret |-> FALSE]
        ELSE IF AddRaises(st.index, rows) THEN [st |-> looped, ret |-> FALSE]
        ELSE [st |-> [looped EXCEPT !.index.xb = st.index.xb \o rows,
                                    !.is_built = TRUE],
              ret |-> TRUE]

\* faiss IndexFlatIP.search of one query for n results: the stored rows by
\* inner product descending (equal products by position), as <<distance,
\* label>>; slots it cannot fill hold <<-FLT_MAX, -1>>
FaissSearch(xb, q, n) ==
    LET sim(i) == Dot(xb[i], q)
        RECURSIVE Take(_, _)
        Take(left, m) ==
            IF m = 0 THEN <<>>
            ELSE IF left = {} THEN <<[sim |-> NegFltMax, idx |-> -1]>>
                                   \o Take(left, m - 1)
            ELSE LET best == CHOOSE i \in left : \A j \in left :
                                 \/ sim(i) > sim(j)
                                 \/ sim(i) = sim(j) /\ i <= j
                 IN  <<[sim |-> sim(best), idx |-> best - 1]>>
                     \o Take(left \ {best}, m - 1)
    IN  Take(1..Len(xb), n)

\* list[idx] for a Python index that may be negative (idx >= -len(list))
PyIndex(list, idx) == IF idx < 0 THEN list[Len(list) + idx + 1] ELSE list[idx + 1]

\* the result dict search builds from a metadata entry
SearchResult(md, similarity) ==
    [entity_id |-> md.entity_id, entity_type |-> md.entity_type,
     similarity_score |-> similarity, original_data |-> md.original_data]

\* (mutation of NotBuilt: the built flag is not looked at)
NotBuiltIgnored(st) == FALSE

\* line 199: search gives up on a store that was never built or loaded
NotBuilt(st) == ~st.is_built

\* (mutation of Enough: the loop stops one result late)
EnoughOffByOne(results, k) == Len(results) > k

\* lines 229-230: the loop stops once k results are collected
Enough(results, k) == Len(results) >= k

\* lines 210-230: the loop over the labels FAISS returned, reading the
\* metadata list and building one new result dict per label that passes
CollectResults(st, found, k, entity_types) ==
    LET n == Len(st.metadata)
        RECURSIVE Loop(_, _)
        Loop(i, results) ==
            IF i > Len(found) THEN results
            ELSE IF found[i].idx >= n THEN Loop(i + 1, results)
            ELSE IF found[i].idx < 0 - n THEN <<>>
            ELSE LET md == PyIndex(st.metadata, found[i].idx)
                 IN  IF entity_types # {} /\ md.entity_type \notin entity_types
                     THEN Loop(i + 1, results)
                     ELSE LET r == Append(results,
                                          SearchResult(md, found[i].sim))
                          IN  IF Enough(r, k) THEN r ELSE Loop(i + 1, r)
    IN  Loop(1, <<>>)

\* lines 204-208: normalizing the query or index.search raises
IndexSearchRaises(st, query, k) == Len(query) # st.index.d \/ k * 2 <= 0

\* search(query_embedding, k, entity_types) -> list of result dicts;
\* entity_types = {} is None.  Every exception inside ends in  return []
Search(st, query, k, entity_types) ==
    IF NotBuilt(st) THEN <<>>
    ELSE IF IndexSearchRaises(st, query, k) THEN <<>>
    ELSE CollectResults(st, FaissSearch(st.index.xb, Normalize(query), k * 2),
                        k, entity_types)

\* the two files save_index writes; a file that exists is readable unless it
\* was damaged after it was written
NoDisk == [has_index |-> FALSE, index_readable |-> FALSE, index |-> NoIndex,
           has_metadata |-> FALSE, metadata_readable |-> FALSE,
           metadata |-> <<>>, id_to_index |-> {},
           embedding_dimension |-> 0]

\* save_index -> [disk, ret]
SaveIndex(st, dsk) ==
    IF ~st.is_built THEN [disk |-> dsk, ret |-> FALSE]
    ELSE [disk |-> [has_index |-> TRUE, index_readable |-> TRUE,
                    index |-> st.index,
                    has_metadata |-> TRUE, metadata_readable |-> TRUE,
                    metadata |-> st.metadata,
                    id_to_index |-> st.id_to_index,
                    embedding_dimension |-> st.embedding_dimension],
          ret |-> TRUE]

\* (mutation of LoadIndex: the id->position map is not restored)
LoadIndexWithoutIdMap(st, dsk) ==
    IF ~dsk.has_index \/ ~dsk.has_metadata THEN [st |-> st, ret |-> FALSE]
    ELSE IF ~dsk.index_readable THEN [st |-> st, ret |-> FALSE]
    ELSE IF ~dsk.metadata_readable
    THEN [st |-> [st EXCEPT !.index = dsk.index], ret |-> FALSE]
    ELSE [st |-> [index |-> dsk.index, metadata |-> dsk.metadata,
                  id_to_index |-> st.id_to_index,
                  embedding_dimension |-> dsk.embedding_dimension,
                  is_built |-> TRUE],
          ret |-> TRUE]

\* load_index -> [st, ret]: inside the try, faiss.read_index is assigned to
\* self.index before pickle.load of the metadata file is attempted
LoadIndex(st, dsk) ==
    IF ~dsk.has_index THEN [st |-> st, ret |-> FALSE]
    ELSE IF ~dsk.has_metadata THEN [st |-> st, ret |-> FALSE]
    ELSE IF ~dsk.index_readable THEN [st |-> st, ret |-> FALSE]
    ELSE IF ~dsk.metadata_readable
    THEN [st |-> [st EXCEPT !.index = dsk.index], ret |-> FALSE]
    ELSE [st |-> [index |-> dsk.index, metadata |-> dsk.metadata,
                  id_to_index |-> dsk.id_to_index,
                  embedding_dimension |-> dsk.embedding_dimension,
                  is_built |-> TRUE],
          ret |-> TRUE]

\* load_or_build_index -> [st, disk, ret]
LoadOrBuildIndex(st, dsk, data) ==
    LET l == LoadIndex(st, dsk)
        a == AddEmbeddings(l.st, data)
    IN  IF l.ret THEN [st |-> l.st, disk |-> dsk, ret |-> TRUE]
        ELSE IF data = <<>> THEN [st |-> l.st, disk |-> dsk, ret |-> FALSE]
        ELSE IF a.ret THEN [st |-> a.st, disk |-> SaveIndex(a.st, dsk).disk,
                            ret |-> TRUE]
        ELSE [st |-> a.st, disk |-> dsk, ret |-> FALSE]

\* clear_cache: both files are deleted
ClearCache(dsk) == NoDisk

\* the entity types of the metadata entries
KindsOf(metadata) == {metadata[i].entity_type : i \in 1..Len(metadata)}

\* get_stats; entity_type_counts is a dict as a set of <<entity type, count>>
GetStats(st) ==
    IF ~st.is_built
    THEN [built |-> FALSE, total_vectors |-> 0, dimension |-> 0,
          entity_type_counts |-> {}]
    ELSE [built |-> TRUE, total_vectors |-> Len(st.index.xb),
          dimension |-> st.embedding_dimension,
          entity_type_counts |->
              {<<kind, Cardinality({i \in 1..Len(st.metadata) :
                                       st.metadata[i].entity_type = kind})>> :
                  kind \in KindsOf(st.metadata)}]

----------------------------------------------------------------------------
(* MatchingEngine: src/src/matching_engine.py *)

\* the keys of the 'preferences' dict that get_user_preferences reads
PrefKeys == {"collaborations", "grantFundedProjects", "funding", "consulting",
             "opportunities"}

\* (mutation of TruthyKeys: a key counts as soon as it is present)
PresentKeys(raw) == {key \in DOMAIN raw : raw[key] # Absent}

\* lines 24-33: if preferences.get(key), for a 'preferences' dict that maps
\* a key to True or False or does not hold it
TruthyKeys(raw) == {key \in DOMAIN raw : raw[key] \notin {Absent, "False"}}

\* get_user_preferences (skills and expertise are carried along unused
\* by the matching and are left out)
GetUserPreferences(user_data) ==
    LET p == user_data.preferences
    IN  [seeking |->
             (IF "collaborations" \in p THEN <<"collaboration">> ELSE <<>>)
          \o (IF "grantFundedProjects" \in p THEN <<"research", "grant">> ELSE <<>>)
          \o (IF "funding" \in p THEN <<"funding">> ELSE <<>>)
          \o (IF "consulting" \in p THEN <<"consulting">> ELSE <<>>)
          \o (IF "opportunities" \in p THEN <<"opportunity">> ELSE <<>>),
         location |-> Get(user_data, "location", "any"),
         user_type |-> Get(user_data, "type", "unknown")]

\* (mutation of DefaultCompatibleTypes: the set of the key 'unknown')
DefaultCompatibleTypesGeneric(user_type) ==
    <<"professional", "student", "organization">>

\* line 77: the default of type_mapping.get for a type that is not a key
DefaultCompatibleTypes(user_type) == <<Lower(user_type)>>

\* type_mapping.get(user_type, [user_type.lower()])
UserCompatibleTypes(user_type) ==
    CASE user_type = "student/early-career" ->
             <<"student", "student/early-career", "early-career">>
      [] user_type = "professional/consultant" ->
             <<"professional", "consultant", "professional/consultant">>
      [] user_type = "researcher/academic" ->
             <<"professional", "research", "researcher", "academic",
               "academic_institution">>
      [] user_type = "entrepreneur/inovator" ->
             <<"entrepreneur", "startup", "company", "inovator">>
      [] user_type = "privateOrganisation" ->
             <<"company", "startup", "entrepreneur", "organization", "private">>
      [] user_type = "publicInstitution" ->
             <<"professional", "research", "academic_institution",
               "government_agency", "public", "institution">>
      [] user_type = "startup" ->
             <<"startup", "company", "entrepreneur", "organization">>
      [] user_type = "non_profit" ->
             <<"non_profit", "ngo", "organization", "nonprofit">>
      [] user_type = "professional" -> <<"professional", "consultant">>
      [] user_type = "student" -> <<"student", "early-career">>
      [] user_type = "research_center" ->
             <<"research_center", "research", "academic_institution">>
      [] user_type = "company" ->
             <<"company", "startup", "entrepreneur", "organization">>
      [] user_type = "entrepreneur" -> <<"entrepreneur", "startup", "company">>
      [] user_type = "research" -> <<"research", "researcher", "academic">>
      [] user_type = "government_agency" ->
             <<"government_agency", "public", "institution">>
      [] user_type = "academic_institution" ->
             <<"academic_institution", "research", "university">>
      [] user_type = "unknown" -> <<"professional", "student", "organization">>
      [] OTHER -> DefaultCompatibleTypes(user_type)

\* json.loads on the texts of the model: [ok, value]
JsonLoads(text) ==
    CASE text = "[\"student\"]" -> [ok |-> TRUE, value |-> ATList(<<"student">>)]
      [] text = "[\"professional\"]" ->
             [ok |-> TRUE, value |-> ATList(<<"professional">>)]
      [] text = "[\"student/early-career\"]" ->
             [ok |-> TRUE, value |-> ATList(<<"student/early-career">>)]
      [] text = "[\"research\"]" ->
             [ok |-> TRUE, value |-> ATList(<<"research">>)]
      [] text = "[\"professional\", \"student\"]" ->
             [ok |-> TRUE, value |-> ATList(<<"professional", "student">>)]
      [] text = "[]" -> [ok |-> TRUE, value |-> ATList(<<>>)]
      [] text = "\"student\"" -> [ok |-> TRUE, value |-> ATStr("student")]
      [] text = "7" -> [ok |-> TRUE, value |-> ATNum(7)]
      [] text = "null" -> [ok |-> TRUE, value |-> ATNull]
      [] OTHER -> [ok |-> FALSE, value |-> ATList(<<>>)]

\* the applicant_types the filter ends up with (lines 84-92)
ParseApplicantTypes(raw) ==
    IF raw.kind = "str"
    THEN (IF JsonLoads(raw.text).ok THEN JsonLoads(raw.text).value
          ELSE ATList(<<>>))
    ELSE IF raw.kind = "list" THEN raw
    ELSE ATList(<<>>)

\* bool(value)
Truthy(v) ==
    CASE v.kind = "list" -> v.items # <<>>
      [] v.kind = "str" -> v.text # ""
      [] v.kind = "num" -> v.num # 0
      [] OTHER -> FALSE

\* x in value, for a list (membership) or a str (substring)
In(x, v) ==
    CASE v.kind = "list" -> InList(x, v.items)
      [] v.kind = "str" -> Contains(x, v.text)
      [] OTHER -> FALSE

\* x in value raises TypeError when value is a number
InRaises(v) == v.kind = "num"

\* (mutation of TypeMismatch: an empty list is flagged as well)
TypeMismatchFlagsEmpty(applicant_types, user_compatible_types) ==
    ~\E i \in 1..Len(user_compatible_types) :
          In(user_compatible_types[i], applicant_types)

\* lines 95-98: the soft type flag
TypeMismatch(applicant_types, user_compatible_types) ==
    /\ Truthy(applicant_types)
    /\ ~\E i \in 1..Len(user_compatible_types) :
            In(user_compatible_types[i], applicant_types)

\* (mutation of LocationMismatch: a seeker at 'other' is not flexible)
LocationMismatchSeekerStrict(project_data, user_location) ==
    LET project_location == Get(project_data, "location", "any")
        delivery == Get(project_data, "delivery", "in-person")
    IN  ~(\/ user_location = project_location
          \/ project_location = "other"
          \/ delivery \in {"online-virtual", "hybrid"})

\* lines 101-109: the soft location flag
LocationMismatch(project_data, user_location) ==
    LET project_location == Get(project_data, "location", "any")
        delivery == Get(project_data, "delivery", "in-person")
    IN  ~(\/ user_location = project_location
          \/ user_location = "other"
          \/ project_location = "other"
          \/ delivery \in {"online-virtual", "hybrid"})

\* lines 116-117: the hard status filter
IsActive(project_data) ==
    Lower(Get(project_data, "status", "")) \in {"active", ""}

\* (mutation of KeepProject: the commented-out drop of lines 112-113 is on)
KeepUnlessBothMismatch(project_data, type_mismatch, location_mismatch) ==
    IsActive(project_data) /\ ~(type_mismatch /\ location_mismatch)

\* lines 111-119: a flagged project is kept; only the status decides
KeepProject(project_data, type_mismatch, location_mismatch) ==
    IsActive(project_data)

\* what the loop body does with one project: [raises, keep, project]
FilterProject(project, user_prefs) ==
    LET applicant_types == ParseApplicantTypes(project.original_data.applicantTypes)
        compat == UserCompatibleTypes(user_prefs.user_type)
    IN  [raises |-> Truthy(applicant_types) /\ InRaises(applicant_types),
         keep |-> KeepProject(project.original_data,
                              TypeMismatch(applicant_types, compat),
                              LocationMismatch(project.original_data,
                                               user_prefs.location)),
         project |->
             [entity_id |-> project.entity_id,
              entity_type |-> project.entity_type,
              similarity_score |-> project.similarity_score,
              original_data |-> project.original_data,
              type_mismatch |-> TypeMismatch(applicant_types, compat),
              location_mismatch |->
                  LocationMismatch(project.original_data, user_prefs.location)]]

\* apply_compatibility_filters -> [raises, out]
ApplyCompatibilityFilters(projects, user_data) ==
    LET user_prefs == GetUserPreferences(user_data)
        f == [i \in 1..Len(projects) |-> FilterProject(projects[i], user_prefs)]
        RECURSIVE Kept(_)
        Kept(i) == IF i > Len(f) THEN <<>>
                   ELSE (IF f[i].keep THEN <<f[i].project>> ELSE <<>>)
                        \o Kept(i + 1)
    IN  IF \E i \in 1..Len(f) : f[i].raises
        THEN [raises |-> TRUE, out |-> <<>>]
        ELSE [raises |-> FALSE, out |-> Kept(1)]

----------------------------------------------------------------------------
(* Scoring *)

\* the weights of final_score, in hundredths (lines 185-189)
WSemantic == 40
WType == 25
WAlignment == 20
WDelivery == 10
WDuration == 5

\* x in applicant_types on the raw field, as the scorer reads it (line 131):
\* membership for a list, substring for a string
InRaw(x, raw) ==
    CASE raw.kind = "list" -> InList(x, raw.items)
      [] raw.kind = "str" -> Contains(x, raw.text)
      [] OTHER -> FALSE

AnyInRaw(xs, raw) == \E x \in xs : InRaw(x, raw)

\* (mutation of ExactTypeMatch: any eligible type is an exact match)
ExactTypeMatchAnyType(user_type, raw) == raw.kind = "list" /\ raw.items # <<>>

\* lines 134-150: the exact-match table
ExactTypeMatch(user_type, raw) ==
    \/ user_type = "professional/consultant" /\ InRaw("professional", raw)
    \/ user_type = "student/early-career" /\ InRaw("student", raw)
    \/ user_type = "researcher/academic"
         /\ AnyInRaw({"professional", "research", "academic_institution"}, raw)
    \/ user_type = "entrepreneur/inovator"
         /\ AnyInRaw({"entrepreneur", "startup", "company"}, raw)
    \/ user_type = "publicInstitution"
         /\ AnyInRaw({"research", "academic_institution", "professional"}, raw)
    \/ user_type = "privateOrganisation"
         /\ AnyInRaw({"company", "startup", "entrepreneur", "organization"}, raw)
    \/ user_type = "startup"
         /\ AnyInRaw({"startup", "company", "entrepreneur"}, raw)

\* (mutation of TypeScore: the exact-match table is not consulted)
TypeScoreWithoutExactMatch(project, user_type) ==
    IF project.type_mismatch THEN (80 * 6) \div 10 ELSE 80

\* lines 134-154, in hundredths
TypeScore(project, user_type) ==
    LET base == IF ExactTypeMatch(user_type, project.original_data.applicantTypes)
                THEN 100 ELSE 80
    IN  IF project.type_mismatch THEN (base * 6) \div 10 ELSE base

\* (mutation of DeliveryScore: the location flag costs nothing)
DeliveryScoreUnpenalised(project) ==
    IF Get(project.original_data, "delivery", "in-person")
           \in {"online-virtual", "hybrid"} THEN 90 ELSE 70

\* lines 156-163
DeliveryScore(project) ==
    LET delivery == Get(project.original_data, "delivery", "in-person")
        base == IF delivery \in {"online-virtual", "hybrid"} THEN 90 ELSE 70
    IN  IF project.location_mismatch THEN (base * 7) \div 10 ELSE base

\* lines 165-170
DurationScore(project, user_type) ==
    LET duration == Get(project.original_data, "duration", "unknown")
    IN  IF Contains("student", user_type) /\ duration = "short-term" THEN 100
        ELSE IF Contains("student", user_type) /\ duration = "medium-term" THEN 90
        ELSE 80

\* (mutation of TypeAlignmentScore: the collaboration rule is tried first)
TypeAlignmentScoreCollaborationFirst(project, seeking) ==
    LET project_type == Get(project.original_data, "type", "unknown")
    IN  IF InList("collaboration", seeking) THEN 90
        ELSE IF InList("research", seeking)
                /\ Contains("funding-opportunity", project_type) THEN 100
        ELSE IF InList("grant", seeking)
                /\ (Contains("fellowship", project_type)
                    \/ Contains("funding", project_type)) THEN 100
        ELSE IF InList("funding", seeking) /\ Contains("funding", project_type)
             THEN 90
        ELSE 70

\* lines 172-182
TypeAlignmentScore(project, seeking) ==
    LET project_type == Get(project.original_data, "type", "unknown")
    IN  IF InList("research", seeking)
           /\ Contains("funding-opportunity", project_type) THEN 100
        ELSE IF InList("grant", seeking)
                /\ (Contains("fellowship", project_type)
                    \/ Contains("funding", project_type)) THEN 100
        ELSE IF InList("collaboration", seeking) THEN 90
        ELSE IF InList("funding", seeking) /\ Contains("funding", project_type)
             THEN 90
        ELSE 70

\* (mutation of SemanticScore: a negative similarity is not clamped)
SemanticScoreUnclamped(similarity_score) == similarity_score

\* line 128
SemanticScore(similarity_score) == Max0(similarity_score)

\* lines 184-190, in units of 1/10000
FinalScore(semantic, type, alignment, delivery, duration) ==
    semantic * WSemantic + type * WType + alignment * WAlignment
    + delivery * WDelivery + duration * WDuration

\* calculate_relevance_score
CalculateRelevanceScore(project, user_data, similarity_score) ==
    LET user_prefs == GetUserPreferences(user_data)
        semantic == SemanticScore(similarity_score)
        type == TypeScore(project, user_prefs.user_type)
        delivery == DeliveryScore(project)
        duration == DurationScore(project, user_prefs.user_type)
        alignment == TypeAlignmentScore(project, user_prefs.seeking)
    IN  [final_score |-> FinalScore(semantic, type, alignment, delivery, duration),
         semantic_similarity |-> semantic,
         applicant_type_match |-> type,
         project_type_alignment |-> alignment,
         delivery_compatibility |-> delivery,
         duration_fit |-> duration]

\* (mutation of CutReasons: the last four are kept)
CutReasonsFromEnd(reasons) ==
    SubSeq(reasons, IF Len(reasons) < 4 THEN 1 ELSE Len(reasons) - 3,
           Len(reasons))

\* line 242: reasons[:4]
CutReasons(reasons) ==
    SubSeq(reasons, 1, IF Len(reasons) < 4 THEN Len(reasons) ELSE 4)

\* generate_match_reasons
GenerateMatchReasons(project, user_data, scores) ==
    LET user_type == GetUserPreferences(user_data).user_type
        delivery == Get(project.original_data, "delivery", "in-person")
        duration == Get(project.original_data, "duration", "unknown")
        budget == project.original_data.budget
        reasons ==
             (IF scores.semantic_similarity > 70
              THEN <<"Strong skill and expertise alignment">>
              ELSE IF scores.semantic_similarity > 50
              THEN <<"Good skill compatibility">> ELSE <<>>)
          \o (IF scores.applicant_type_match >= 100
              THEN (IF user_type \in {"publicInstitution", "startup",
                                      "privateOrganisation"}
                    THEN <<"Perfect organizational fit">>
                    ELSE <<"Perfect fit for your profile">>)
              ELSE IF scores.applicant_type_match > 60
              THEN <<"Compatible applicant profile">> ELSE <<>>)
          \o (IF scores.project_type_alignment >= 100
              THEN <<"Matches your stated preferences">>
              ELSE IF scores.project_type_alignment > 80
              THEN <<"Aligns with your interests">> ELSE <<>>)
          \o (IF delivery \in {"online-virtual", "hybrid"}
              THEN <<"Flexible delivery options available">> ELSE <<>>)
          \o (IF Contains("student", user_type) /\ duration = "short-term"
              THEN <<"Good duration for student schedule">> ELSE <<>>)
          \o (IF budget # Absent /\ budget # "" /\ budget # "Not specified"
              THEN <<"Funded opportunity">> ELSE <<>>)
        all == IF reasons = <<>> THEN <<"Matches your profile">> ELSE reasons
    IN  CutReasons(all)

\* (mutation of Confidence: the boundary values go to the upper bucket)
ConfidenceInclusive(final_score) ==
    IF final_score >= 7000 THEN "high"
    ELSE IF final_score >= 5000 THEN "medium"
    ELSE "low"

\* line 322; final_score is in units of 1/10000
Confidence(final_score) ==
    IF final_score > 7000 THEN "high"
    ELSE IF final_score > 5000 THEN "medium"
    ELSE "low"

\* lines 311-334: the recommendation built for one compatible project
Recommendation(project, user_data) ==
    LET scores == CalculateRelevanceScore(project, user_data,
                                          project.similarity_score)
    IN  [project_id |-> project.entity_id,
         project_type |-> Get(project.original_data, "type", "Unknown"),
         match_score |-> scores.final_score,
         confidence |-> Confidence(scores.final_score),
         match_reasons |-> GenerateMatchReasons(project, user_data, scores),
         score_breakdown |-> scores]

\* (mutation of SortByScore: of equal scores the later one comes first)
RECURSIVE SortByScoreUnstable(_)
SortByScoreUnstable(recs) ==
    IF recs = <<>> THEN <<>>
    ELSE LET best == CHOOSE i \in 1..Len(recs) :
                         /\ \A j \in 1..Len(recs) :
                                recs[i].match_score >= recs[j].match_score
                         /\ \A j \in (i + 1)..Len(recs) :
                                recs[j].match_score < recs[i].match_score
             rest == [j \in 1..(Len(recs) - 1) |->
                          IF j < best THEN recs[j] ELSE recs[j + 1]]
         IN  <<recs[best]>> \o SortByScoreUnstable(rest)

\* list.sort(key=match_score, reverse=True): stable, so equal scores keep
\* their order
RECURSIVE SortByScore(_)
SortByScore(recs) ==
    IF recs = <<>> THEN <<>>
    ELSE LET best == CHOOSE i \in 1..Len(recs) :
                         /\ \A j \in 1..Len(recs) :
                                recs[i].match_score >= recs[j].match_score
                         /\ \A j \in 1..(i - 1) :
                                recs[j].match_score < recs[i].match_score
             rest == [j \in 1..(Len(recs) - 1) |->
                          IF j < best THEN recs[j] ELSE recs[j + 1]]
         IN  <<recs[best]>> \o SortByScore(rest)

\* list[:n]
Prefix(list, n) == SubSeq(list, 1, IF Len(list) < n THEN Len(list) ELSE n)

\* lines 253-270: the key of embeddings_data the seeker is looked up under
FinalType(user_type, entity_type) ==
    IF entity_type # Absent THEN entity_type
    ELSE IF user_type # Absent
    THEN (CASE user_type = "individual" -> "individuals"
            [] user_type = "organization" -> "organizations"
            [] OTHER -> user_type)
    ELSE "individuals"

\* lines 276-280: the first item of the list whose id is user_id
FindUser(items, user_id) ==
    LET hits == {i \in 1..Len(items) : items[i].id = user_id}
    IN  IF hits = {} THEN [found |-> FALSE, item |-> ItemOf("N")]
        ELSE [found |-> TRUE,
              item |-> items[CHOOSE i \in hits : \A j \in hits : i <= j]]

\* lines 297-339: find_recommendations from the point where the similarity
\* search has returned similar_projects -> [raises, out]
RankProjects(similar_projects, user_data, top_k) ==
    LET compatible == ApplyCompatibilityFilters(similar_projects, user_data)
        scored == Prefix(compatible.out, top_k * 2)
        recommendations == [i \in 1..Len(scored) |->
                                Recommendation(scored[i], user_data)]
    IN  IF similar_projects = <<>> THEN [raises |-> FALSE, out |-> <<>>]
        ELSE IF compatible.raises THEN [raises |-> TRUE, out |-> <<>>]
        ELSE [raises |-> FALSE,
              out |-> Prefix(SortByScore(recommendations), top_k)]

\* (mutation of SearchedKinds: entity_types=None, entries of every kind)
SearchedKindsAll == {}

\* line 293: entity_types=['project_calls']
SearchedKinds == {"project_calls"}

\* find_recommendations -> [raises, out]
FindRecommendations(st, data, user_id, user_type, entity_type, top_k) ==
    LET final_type == FinalType(user_type, entity_type)
        user == FindUser(ItemsOfKind(data, final_type), user_id)
        user_data == user.item.original_data
        similar_projects == Search(st, user.item.embedding, top_k * 3,
                                   SearchedKinds)
    IN  IF ~user.found THEN [raises |-> FALSE, out |-> <<>>]
        ELSE IF ~user.item.has_embedding THEN [raises |-> TRUE, out |-> <<>>]
        ELSE RankProjects(similar_projects, user_data, top_k)

----------------------------------------------------------------------------
(* The state machine: one VectorStore, the files it persists to, the       *)
(* MatchingEngine holding it, and the last call with what it returned.     *)

VARIABLES
    vs,                 \* the VectorStore the engine holds
    disk,               \* the index file and the metadata file
    embeddings_data,    \* MatchingEngine.embeddings_data
    last,               \* the call that has just returned: operation,
                        \* arguments, result; "idle" between calls
    cands,              \* a list of candidate dicts a caller has put together
    inflight            \* per thread, the query it is in the middle of

vars == <<vs, disk, embeddings_data, last, cands, inflight>>

Call(op, args, ret, out, raises, store) ==
    [op |-> op, args |-> args, ret |-> ret, out |-> out, raises |-> raises,
     store |-> store]

\* query vectors: a seeker's embedding, a project's, one of the wrong length
Queries == {VecOf("S"), VecOf("D"), VecOf("X")}

\* entity_types arguments of search ({} is None)
TypeFilters == {{}, {"project_calls"}, {"individuals", "organizations"}}

\* seeker ids asked for
UserIds == {"id_S", "id_O", "id_none"}

\* <<user_type, entity_type>> arguments of find_recommendations
KindArgs == {<<Absent, Absent>>, <<Absent, "individuals">>,
             <<"organization", Absent>>}

\* no call has returned that the caller has not yet dealt with
Idle == Call("idle", <<>>, FALSE, <<>>, FALSE, NewStore)

\* the threads that serve queries at the same time
Threads == {"t1", "t2"}

\* a thread that is serving no query
NoRequest ==
    [pc |-> "idle", op |-> "none", args |-> <<>>, query |-> <<>>, k |-> 0,
     types |-> {}, user_data |-> DataOf("N"), found |-> <<>>,
     results |-> <<>>, out |-> <<>>, raises |-> FALSE]

NoRequests == [t \in Threads |-> NoRequest]

Init ==
    /\ vs = NewStore
    /\ disk = NoDisk
    /\ embeddings_data = <<>>
    /\ last = Idle
    /\ cands = <<>>
    /\ inflight = NoRequests

\* vector_store.add_embeddings(data)
Add(d) ==
    /\ last = Idle
    /\ Len(vs.metadata) < MaxMeta
    /\ LET r == AddEmbeddings(vs, EmbeddingsData(d))
       IN  /\ vs' = r.st
           /\ last' = Call("add", <<d>>, r.ret, <<>>, FALSE, vs)
    /\ UNCHANGED <<disk, embeddings_data, cands, inflight>>

\* vector_store.search(q, k, types)
SearchCall(q, k, types) ==
    /\ last = Idle
    /\ last' = Call("search", <<q, k, types>>, FALSE, Search(vs, q, k, types),
                    FALSE, vs)
    /\ UNCHANGED <<vs, disk, embeddings_data, cands, inflight>>

\* vector_store.save_index()
Save ==
    /\ last = Idle
    /\ LET r == SaveIndex(vs, disk)
       IN  /\ disk' = r.disk
           /\ last' = Call("save", <<>>, r.ret, <<>>, FALSE, vs)
    /\ UNCHANGED <<vs, embeddings_data, cands, inflight>>

\* vector_store.load_index()
Load ==
    /\ last = Idle
    /\ LET r == LoadIndex(vs, disk)
       IN  /\ vs' = r.st
           /\ last' = Call("load", <<>>, r.ret, <<>>, FALSE, vs)
    /\ UNCHANGED <<disk, embeddings_data, cands, inflight>>

\* VectorStore().load_index(): a second, fresh store is loaded from the
\* files; it is the store of the call record
LoadFresh ==
    /\ last = Idle
    /\ LET r == LoadIndex(NewStore, disk)
       IN  last' = Call("load_fresh", <<>>, r.ret, <<>>, FALSE, r.st)
    /\ UNCHANGED <<vs, disk, embeddings_data, cands, inflight>>

\* vector_store.load_or_build_index(data)
LoadOrBuild(d) ==
    /\ last = Idle
    /\ Len(vs.metadata) < MaxMeta
    /\ LET r == LoadOrBuildIndex(vs, disk, EmbeddingsData(d))
       IN  /\ vs' = r.st
           /\ disk' = r.disk
           /\ last' = Call("load_or_build", <<d>>, r.ret, <<>>, FALSE, vs)
    /\ UNCHANGED <<embeddings_data, cands, inflight>>

\* vector_store.clear_cache()
Clear ==
    /\ last = Idle
    /\ disk' = ClearCache(disk)
    /\ last' = Call("clear_cache", <<>>, disk.has_index \/ disk.has_metadata,
                    <<>>, FALSE, vs)
    /\ UNCHANGED <<vs, embeddings_data, cands, inflight>>

\* matching_engine.set_embeddings_data(data)
SetEmbeddingsData(d) ==
    /\ last = Idle
    /\ embeddings_data' = EmbeddingsData(d)
    /\ last' = Call("set_embeddings_data", <<d>>, FALSE, <<>>, FALSE, vs)
    /\ UNCHANGED <<vs, disk, cands, inflight>>

\* matching_engine.find_recommendations(user_id, user_type, entity_type, top_k)
FindRecs(user_id, kinds, top_k) ==
    /\ last = Idle
    /\ LET r == FindRecommendations(vs, embeddings_data, user_id,
                                    kinds[1], kinds[2], top_k)
       IN  last' = Call("find_recommendations", <<user_id, kinds, top_k>>,
                        FALSE, r.out, r.raises, vs)
    /\ UNCHANGED <<vs, disk, embeddings_data, cands, inflight>>

\* the file system: a file save_index wrote is removed, or is left unreadable
\* (truncated, overwritten), between two calls
Damage(file, how) ==
    /\ last = Idle
    /\ \/ /\ file = "index" /\ how = "missing" /\ disk.has_index
          /\ disk' = [disk EXCEPT !.has_index = FALSE,
                                  !.index_readable = FALSE,
                                  !.index = NoIndex]
       \/ /\ file = "index" /\ how = "unreadable" /\ disk.index_readable
          /\ disk' = [disk EXCEPT !.index_readable = FALSE,
                                  !.index = NoIndex]
       \/ /\ file = "metadata" /\ how = "missing" /\ disk.has_metadata
          /\ disk' = [disk EXCEPT !.has_metadata = FALSE,
                                  !.metadata_readable = FALSE,
                                  !.metadata = <<>>, !.id_to_index = {},
                                  !.embedding_dimension = 0]
       \/ /\ file = "metadata" /\ how = "unreadable"
          /\ disk.metadata_readable
          /\ disk' = [disk EXCEPT !.metadata_readable = FALSE,
                                  !.metadata = <<>>, !.id_to_index = {},
                                  !.embedding_dimension = 0]
    /\ UNCHANGED <<vs, embeddings_data, last, cands, inflight>>

\* vector_store.get_stats()
Stats ==
    /\ last = Idle
    /\ last' = Call("get_stats", <<>>, FALSE, <<GetStats(vs)>>, FALSE, vs)
    /\ UNCHANGED <<vs, disk, embeddings_data, cands, inflight>>

\* the caller is done with the result of the call
Return ==
    /\ last # Idle
    /\ last' = Idle
    /\ UNCHANGED <<vs, disk, embeddings_data, cands, inflight>>

Next ==
    \/ \E d \in DataNames : Add(d)
    \/ \E q \in Queries, k \in 1..MaxK, t \in TypeFilters : SearchCall(q, k, t)
    \/ Save
    \/ Load
    \/ LoadFresh
    \/ \E d \in DataNames : LoadOrBuild(d)
    \/ Clear
    \/ \E d \in {"scenario", "orgs"} : SetEmbeddingsData(d)
    \/ \E u \in UserIds, ka \in KindArgs, k \in 1..MaxTopK : FindRecs(u, ka, k)
    \/ Stats
    \/ \E file \in {"index", "metadata"}, how \in {"missing", "unreadable"} :
           Damage(file, how)
    \/ Return

Spec == Init /\ [][Next]_vars

----------------------------------------------------------------------------
(* Properties of VectorStore.search, save_index, load_index, add_embeddings *)

\* the search call that has just returned
SearchK == last.args[2]

\* C1: search returns at most k results, ordered by similarity descending
\* with no inversion.
C1_TopKSorted ==
    last.op = "search" =>
        /\ Len(last.out) <= SearchK
        /\ \A i \in 1..(Len(last.out) - 1) :
               last.out[i].similarity_score >= last.out[i + 1].similarity_score

\* a search that had to cut: more entries stored than k, k of them returned,
\* with strictly decreasing similarities
C1_Witness ==
    /\ last.op = "search"
    /\ Len(last.store.index.xb) > SearchK
    /\ SearchK >= 2
    /\ Len(last.out) = SearchK
    /\ last.out[1].similarity_score > last.out[2].similarity_score

\* C2 (as claimed): every result of search has a similarity in [-1, 1],
\* also when 2*k exceeds the number of stored vectors.
C2_SimilarityInRange ==
    last.op = "search" =>
        \A i \in 1..Len(last.out) :
            /\ last.out[i].similarity_score >= -100
            /\ last.out[i].similarity_score <= 100

\* the store as save_index would write it
ImageOf(st) ==
    [has_index |-> TRUE, index_readable |-> TRUE, index |-> st.index,
     has_metadata |-> TRUE, metadata_readable |-> TRUE,
     metadata |-> st.metadata,
     id_to_index |-> st.id_to_index,
     embedding_dimension |-> st.embedding_dimension]

\* a fresh store has just loaded the files that hold the engine's store as
\* save_index wrote it
LoadedWhatWasSaved ==
    /\ last.op = "load_fresh"
    /\ last.ret
    /\ vs.is_built
    /\ disk = ImageOf(vs)

\* C3: after save_index on a built store and load_index into a fresh store,
\* the metadata list, the id->position map and the dimension equal the saved
\* store's, and search returns the same results for every query, k and kinds.
C3_RoundTrip ==
    LoadedWhatWasSaved =>
        /\ last.store.metadata = vs.metadata
        /\ last.store.id_to_index = vs.id_to_index
        /\ last.store.embedding_dimension = vs.embedding_dimension
        /\ \A q \in Queries, k \in 1..MaxK, t \in TypeFilters :
               Search(last.store, q, k, t) = Search(vs, q, k, t)

\* a round trip of a store with several entries that answers a query
C3_Witness ==
    /\ LoadedWhatWasSaved
    /\ Len(vs.metadata) >= 3
    /\ vs.id_to_index # {}
    /\ Len(Search(last.store, VecOf("S"), 2, {})) = 2

\* the batch of the add that has just returned holds a vector whose length
\* is not the configured dimension
AddHadWrongLength ==
    /\ last.op = "add"
    /\ \E i \in 1..Len(Flat(EmbeddingsData(last.args[1]))) :
           LET item == Flat(EmbeddingsData(last.args[1]))[i].item
           IN  item.has_embedding
               /\ Len(item.embedding) # last.store.embedding_dimension

\* C4 (as claimed): an add holding a vector of the wrong length fails and
\* leaves the stored vectors, the metadata list, the id->position map and
\* the built flag as they were (last.store is the store before the call).
C4_FailedAddChangesNothing ==
    AddHadWrongLength =>
        /\ ~last.ret
        /\ vs.index.xb = last.store.index.xb
        /\ vs.metadata = last.store.metadata
        /\ vs.id_to_index = last.store.id_to_index
        /\ vs.is_built = last.store.is_built

\* C5 (as claimed): search on a store that was never built fails with an
\* error (IndexNotBuilt) the caller can tell from an empty result.
C5_UnbuiltSearchRaises ==
    (last.op = "search" /\ ~last.store.is_built) => last.raises

\* C5 (amended): search on a store that was never built raises nothing and
\* returns the empty list.
C5_UnbuiltSearchReturnsEmpty ==
    (last.op = "search" /\ ~last.store.is_built) =>
        (~last.raises /\ last.out = <<>>)

\* a search on an unbuilt store that already holds metadata of a failed add
C5_Witness ==
    /\ last.op = "search"
    /\ ~last.store.is_built
    /\ last.store.index.created
    /\ last.store.metadata # <<>>
    /\ Len(last.args[1]) = last.store.index.d

----------------------------------------------------------------------------
(* The filter and the scorer on their own: a caller puts candidate dicts   *)
(* together and calls apply_compatibility_filters or                       *)
(* calculate_relevance_score on them.                                      *)

\* the seekers' raw records
Seekers == {DataOf("S"), DataOf("O"), DataOf("N"), DataOf("P")}

\* a search hit for a project with the given record
Candidate(similarity, project_data) ==
    [entity_id |-> "id_p", entity_type |-> "project_calls",
     similarity_score |-> similarity, original_data |-> project_data]

FilterStatuses == {"active", "ACTIVE", "", Absent, "cancelled", "closed"}

\* candidates of the highest similarity, of every status, eligible type and
\* place
FilterCands ==
    {Candidate(100, Rec(Absent, place[1], status, ATList(<<at>>), place[2],
                        Absent, {}, Absent)) :
        status \in FilterStatuses,
        at \in {"student", "professional"},
        place \in {<<Absent, "in-person">>, <<"Romania", "hybrid">>}}

PushCand(c) ==
    /\ last = Idle
    /\ Len(cands) < MaxCands
    /\ cands' = Append(cands, c)
    /\ UNCHANGED <<vs, disk, embeddings_data, last, inflight>>

\* matching_engine.apply_compatibility_filters(cands, user_data)
FilterCall(user_data) ==
    /\ last = Idle
    /\ LET r == ApplyCompatibilityFilters(cands, user_data)
       IN  last' = Call("filter", <<cands, user_data>>, FALSE, r.out,
                        r.raises, vs)
    /\ UNCHANGED <<vs, disk, embeddings_data, cands, inflight>>

NextFilter ==
    \/ \E c \in FilterCands : PushCand(c)
    \/ \E u \in Seekers : FilterCall(u)
    \/ Return

SpecFilter == Init /\ [][NextFilter]_vars

\* raw similarities from -1 to 1
Similarities == {10 * i : i \in -10..10} \cup {-1, 1}

\* candidates as they reach the scorer: any similarity, any record, any
\* combination of the two soft flags
ScoreCands ==
    {[entity_id |-> "id_p", entity_type |-> "project_calls",
      similarity_score |-> sim,
      original_data |-> Rec(type, Absent, "active", at, delivery, duration,
                            {}, Absent),
      type_mismatch |-> flags[1], location_mismatch |-> flags[2]] :
        sim \in Similarities,
        type \in {Absent, "funding-opportunity", "fellowship", "research-funding"},
        at \in {ATAbsent, ATList(<<"student">>), ATList(<<"professional">>),
                ATStr("[\"student\"]")},
        delivery \in {Absent, "in-person", "online-virtual"},
        duration \in {Absent, "short-term", "medium-term", "long-term"},
        flags \in BOOLEAN \X BOOLEAN}

InitScore ==
    /\ vs = NewStore
    /\ disk = NoDisk
    /\ embeddings_data = <<>>
    /\ last = Idle
    /\ cands \in {<<c>> : c \in ScoreCands}
    /\ inflight = NoRequests

\* matching_engine.calculate_relevance_score(project, user_data, similarity)
ScoreCall(user_data) ==
    /\ last = Idle
    /\ last' = Call("score", <<cands[1], user_data>>, FALSE,
                    <<CalculateRelevanceScore(cands[1], user_data,
                                              cands[1].similarity_score)>>,
                    FALSE, vs)
    /\ UNCHANGED <<vs, disk, embeddings_data, cands, inflight>>

NextScore ==
    \/ \E u \in Seekers : ScoreCall(u)
    \/ Return

SpecScore == InitScore /\ [][NextScore]_vars

----------------------------------------------------------------------------
(* Properties of the filter, the scorer and find_recommendations *)

\* a candidate without the two flags the filter puts on it
Unflagged(c) == Candidate(c.similarity_score, c.original_data)

FindUserId == last.args[1]
FindKind == FinalType(last.args[2][1], last.args[2][2])
FindTopK == last.args[3]

\* what the similarity search of that call returned
FindSearched ==
    Search(last.store,
           FindUser(ItemsOfKind(embeddings_data, FindKind), FindUserId).item.embedding,
           FindTopK * 3, {"project_calls"})

\* a search hit that a recommendation can have been built from
BuiltFrom(rec, hit) ==
    /\ hit.entity_id = rec.project_id
    /\ Max0(hit.similarity_score) = rec.score_breakdown.semantic_similarity

\* C7: find_recommendations returns at most top_k recommendations ordered by
\* final score descending, and two recommendations of equal final score
\* appear in the order in which the similarity search returned them.
C7_RankedStable ==
    last.op = "find_recommendations" =>
        /\ Len(last.out) <= FindTopK
        /\ \A i \in 1..(Len(last.out) - 1) :
               last.out[i].match_score >= last.out[i + 1].match_score
        /\ \A i, j \in 1..Len(last.out) :
               (i < j /\ last.out[i].match_score = last.out[j].match_score) =>
                   \E p, q \in 1..Len(FindSearched) :
                       /\ p < q
                       /\ BuiltFrom(last.out[i], FindSearched[p])
                       /\ BuiltFrom(last.out[j], FindSearched[q])

\* two different projects of equal final score were both recommended, and
\* more candidates were scored than returned
C7_Witness ==
    /\ last.op = "find_recommendations"
    /\ Len(last.out) = 2
    /\ FindTopK = 2
    /\ Len(FindSearched) > 2
    /\ last.out[1].project_id # last.out[2].project_id
    /\ last.out[1].match_score = last.out[2].match_score

\* the seeker id asked for is not an id of an item stored under the kind
SeekerNotStored ==
    /\ last.op = "find_recommendations"
    /\ ~\E g \in 1..Len(embeddings_data) :
           /\ embeddings_data[g].kind = FindKind
           /\ \E i \in 1..Len(embeddings_data[g].items) :
                  embeddings_data[g].items[i].id = FindUserId

\* C8 (as claimed): find_recommendations for a seeker id not stored within
\* the kind fails with an error (EntityNotFound) the caller can tell from a
\* request without recommendations.
C8_UnknownSeekerRaises == SeekerNotStored => last.raises

\* C8 (amended): find_recommendations for a seeker id not stored within the
\* kind raises nothing and returns the empty list.
C8_UnknownSeekerReturnsEmpty ==
    SeekerNotStored => (~last.raises /\ last.out = <<>>)

\* the seeker is stored, but under another kind than the one asked for, and
\* the index holds projects that would be recommended to it
C8_Witness ==
    /\ SeekerNotStored
    /\ FindUserId = "id_O"
    /\ embeddings_data = EmbeddingsData("orgs")
    /\ last.store.is_built
    /\ Search(last.store, VecOf("O"), 1, {"project_calls"}) # <<>>

\* the store holds the seeker S and the projects A and B and nothing else,
\* the engine's data is the same, and recommendations for S were asked for
ScenarioAsked ==
    /\ last.op = "find_recommendations"
    /\ FindUserId = "id_S"
    /\ FindKind = "individuals"
    /\ embeddings_data = EmbeddingsData("scenario")
    /\ last.store = AddEmbeddings(NewStore, EmbeddingsData("scenario")).st

\* C9: seeker S (student/early-career, seeking research and grant, Romania),
\* project A (['student'], active, online-virtual, short-term, similarity
\* 0.8), project B (['professional'], active, in-person, long-term,
\* similarity 0.9): A gets type_match 1.0 and duration 1.0, B the penalised
\* type score, A's final score is higher, and top_k = 1 returns exactly A.
C9_Scenario ==
    ScenarioAsked =>
        /\ [i \in 1..2 |-> <<FindSearched[i].entity_id,
                             FindSearched[i].similarity_score>>]
             = <<<<"id_B", 90>>, <<"id_A", 80>>>>
        /\ ~last.raises
        /\ Len(last.out) = FindTopK
        /\ last.out[1].project_id = "id_A"
        /\ last.out[1].score_breakdown.applicant_type_match = 100
        /\ last.out[1].score_breakdown.duration_fit = 100
        /\ FindTopK >= 2 =>
               /\ last.out[2].project_id = "id_B"
               /\ last.out[2].score_breakdown.semantic_similarity = 90
               /\ last.out[2].score_breakdown.applicant_type_match = 48
               /\ last.out[1].match_score > last.out[2].match_score

\* the scenario with top_k = 1
C9_Witness ==
    /\ ScenarioAsked
    /\ FindTopK = 1
    /\ Len(last.out) = 1

\* C10: the five weights sum to 1, and for every candidate, seeker, flags
\* and raw similarity in [-1, 1] each sub-score and the final score lie in
\* [0, 1].
C10_ScoresInUnitRange ==
    /\ WSemantic + WType + WAlignment + WDelivery + WDuration = 100
    /\ last.op = "score" =>
           LET scores == last.out[1]
           IN  /\ scores.semantic_similarity
                    = Max0(last.args[1].similarity_score)
               /\ \A x \in {scores.semantic_similarity,
                            scores.applicant_type_match,
                            scores.project_type_alignment,
                            scores.delivery_compatibility,
                            scores.duration_fit} : x >= 0 /\ x <= 100
               /\ scores.final_score >= 0
               /\ scores.final_score <= 100 * 100

\* a candidate of negative similarity with both flags set was scored
C10_Witness ==
    /\ last.op = "score"
    /\ last.args[1].similarity_score < 0
    /\ last.args[1].type_mismatch
    /\ last.args[1].location_mismatch
    /\ last.out[1].semantic_similarity = 0
    /\ last.out[1].final_score > 0

----------------------------------------------------------------------------
(* Ranking on its own: the similarity search has returned one project and  *)
(* find_recommendations filters, scores and ranks it.                      *)

\* raw similarities around the thresholds of the reasons and the buckets
RankSimilarities == {-10, 10, 40, 50, 51, 70, 71, 100}

\* search hits of every similarity, project type, eligibility, delivery,
\* duration and budget; all are active
RankCands ==
    {Candidate(sim, Rec(type, Absent, "active", at, delivery, duration, {},
                        budget)) :
        sim \in RankSimilarities,
        type \in {Absent, "funding-opportunity", "fellowship"},
        at \in {ATAbsent, ATList(<<"student">>), ATList(<<"professional">>)},
        delivery \in {"in-person", "online-virtual", "hybrid"},
        duration \in {Absent, "short-term", "medium-term"},
        budget \in {Absent, "Not specified", "5000"}}

InitRank ==
    /\ vs = NewStore
    /\ disk = NoDisk
    /\ embeddings_data = <<>>
    /\ last = Idle
    /\ cands \in {<<c>> : c \in RankCands}
    /\ inflight = NoRequests

\* find_recommendations once vector_store.search has returned cands
RankCall(user_data, top_k) ==
    /\ last = Idle
    /\ LET r == RankProjects(cands, user_data, top_k)
       IN  last' = Call("rank", <<cands, user_data, top_k>>, FALSE, r.out,
                        r.raises, vs)
    /\ UNCHANGED <<vs, disk, embeddings_data, cands, inflight>>

NextRank ==
    \/ \E u \in Seekers, k \in 1..MaxTopK : RankCall(u, k)
    \/ Return

SpecRank == InitRank /\ [][NextRank]_vars

\* C11: the confidence of a recommendation is 'high' iff its final score is
\* above 0.7, 'medium' iff it is above 0.5 and at most 0.7, and 'low' iff it
\* is at most 0.5; a final score of exactly 0.70 is 'medium' and one of
\* exactly 0.50 is 'low'.
C11_ConfidenceBuckets ==
    last.op \in {"rank", "find_recommendations"} =>
        \A i \in 1..Len(last.out) :
            LET final == last.out[i].match_score
                confidence == last.out[i].confidence
            IN  /\ confidence \in {"high", "medium", "low"}
                /\ confidence = "high" <=> final > 7000
                /\ confidence = "medium" <=> (final > 5000 /\ final <= 7000)
                /\ confidence = "low" <=> final <= 5000

\* a recommendation whose final score is exactly 0.70 (0.5 * 0.40 + 1.0 *
\* 0.25 + 0.7 * 0.20 + 0.7 * 0.10 + 0.8 * 0.05) came out as 'medium'
C11_Witness ==
    /\ last.op = "rank"
    /\ Len(last.out) = 1
    /\ last.out[1].match_score = 7000
    /\ last.out[1].score_breakdown.semantic_similarity = 50
    /\ last.out[1].score_breakdown.applicant_type_match = 100
    /\ last.out[1].confidence = "medium"

----------------------------------------------------------------------------
(* Further properties of VectorStore *)

\* the n most similar stored entries of a store, most similar first, as
\* <<position, similarity>>
MostSimilar(st, query, n) ==
    SelectSeq(FaissSearch(st.index.xb, Normalize(query), n),
              LAMBDA hit : hit.idx >= 0)

\* C12 (as claimed): a search with a kind filter on a store whose adds all
\* succeeded returns exactly the entries of those kinds among the 2*k most
\* similar entries of the index, most similar first, cut to the first k, and
\* nothing else when these are fewer than k.
C12_KindFilterExact ==
    (/\ last.op = "search"
     /\ last.args[3] # {}
     /\ last.store.is_built
     /\ Len(last.store.metadata) = Len(last.store.index.xb)
     /\ Len(last.args[1]) = last.store.index.d) =>
        LET ofKind == SelectSeq(MostSimilar(last.store, last.args[1], 2 * SearchK),
                                LAMBDA hit :
                                    last.store.metadata[hit.idx + 1].entity_type
                                        \in last.args[3])
        IN  last.out = [i \in 1..Len(Prefix(ofKind, SearchK)) |->
                            SearchResult(last.store.metadata[ofKind[i].idx + 1],
                                         ofKind[i].sim)]

\* the embedding the Embedding Provider delivered for an entity id
EmbeddingOfId(id) ==
    VecOf(CHOOSE name \in {"S", "O", "A", "B", "C", "E", "D", "X"} :
              ItemOf(name).id = id)

\* position pos (counted from 0) of a store holds the metadata and the
\* normalized vector of the entity id
HoldsAt(st, pos, id) ==
    /\ pos < Len(st.metadata)
    /\ pos < Len(st.index.xb)
    /\ st.metadata[pos + 1].entity_id = id
    /\ st.index.xb[pos + 1] = Normalize(EmbeddingOfId(id))

\* C13 (as claimed): an add that succeeds on a store whose earlier adds all
\* succeeded appends its entries after the entries already stored, which stay
\* in place, and afterwards every id of the id->position map has its metadata
\* and its vector at the recorded position.
C13_AddAppendsAndMapsIds ==
    (/\ last.op = "add"
     /\ last.ret
     /\ Len(last.store.metadata) = Len(last.store.index.xb)) =>
        /\ Len(vs.metadata) > Len(last.store.metadata)
        /\ SubSeq(vs.metadata, 1, Len(last.store.metadata)) = last.store.metadata
        /\ SubSeq(vs.index.xb, 1, Len(last.store.index.xb)) = last.store.index.xb
        /\ \A p \in vs.id_to_index : HoldsAt(vs, p[2], p[1])

----------------------------------------------------------------------------
(* Concurrent queries: each thread serves one search or one                *)
(* find_recommendations at a time and reads the shared store, step by      *)
(* step, while the other thread does the same.  Nothing else runs.         *)

Request(pc, op, args, query, k, types, user_data, found, results, out, raises) ==
    [pc |-> pc, op |-> op, args |-> args, query |-> query, k |-> k,
     types |-> types, user_data |-> user_data, found |-> found,
     results |-> results, out |-> out, raises |-> raises]

\* the request has returned out (or raised)
Done(r, out, raises) == [r EXCEPT !.pc = "done", !.out = out, !.raises = raises]

\* a store that was built once, and the engine's data that goes with it
InitConc ==
    /\ \E d \in {"scenario", "orgs"} :
           /\ vs = AddEmbeddings(NewStore, EmbeddingsData(d)).st
           /\ embeddings_data = EmbeddingsData(d)
    /\ disk = NoDisk
    /\ last = Idle
    /\ cands = <<>>
    /\ inflight = NoRequests

\* vector_store.search(q, k, types) is called: the built flag is read
\* (line 199)
StartSearch(t, q, k, types) ==
    /\ inflight[t].pc = "idle"
    /\ LET r == Request("searching", "search", <<q, k, types>>, q, k, types,
                        DataOf("N"), <<>>, <<>>, <<>>, FALSE)
       IN  inflight' = [inflight EXCEPT
                            ![t] = IF NotBuilt(vs) THEN Done(r, <<>>, FALSE)
                                   ELSE r]
    /\ UNCHANGED <<vs, disk, embeddings_data, last, cands>>

\* find_recommendations(user_id, user_type, entity_type, top_k) is called:
\* the seeker is looked up in embeddings_data (lines 276-288) and
\* vector_store.search is entered (lines 290-294, 199)
StartFind(t, user_id, kinds, top_k) ==
    /\ inflight[t].pc = "idle"
    /\ LET user == FindUser(ItemsOfKind(embeddings_data,
                                        FinalType(kinds[1], kinds[2])),
                            user_id)
           r == Request("searching", "find_recommendations",
                        <<user_id, kinds, top_k>>, user.item.embedding,
                        top_k * 3, {"project_calls"},
                        user.item.original_data, <<>>, <<>>, <<>>, FALSE)
       IN  inflight' = [inflight EXCEPT
                            ![t] = IF ~user.found THEN Done(r, <<>>, FALSE)
                                   ELSE IF ~user.item.has_embedding
                                   THEN Done(r, <<>>, TRUE)
                                   ELSE IF NotBuilt(vs) THEN Done(r, <<>>, FALSE)
                                   ELSE r]
    /\ UNCHANGED <<vs, disk, embeddings_data, last, cands>>

\* lines 204-208: the query is normalized and the FAISS index is searched
IndexSearch(t) ==
    /\ inflight[t].pc = "searching"
    /\ LET r == inflight[t]
       IN  inflight' = [inflight EXCEPT
                            ![t] = IF IndexSearchRaises(vs, r.query, r.k)
                                   THEN Done(r, <<>>, FALSE)
                                   ELSE [r EXCEPT
                                            !.pc = "collecting",
                                            !.found = FaissSearch(vs.index.xb,
                                                          Normalize(r.query),
                                                          r.k * 2)]]
    /\ UNCHANGED <<vs, disk, embeddings_data, last, cands>>

\* lines 210-232: the metadata list is read and the result dicts are built;
\* search returns them
Collect(t) ==
    /\ inflight[t].pc = "collecting"
    /\ LET r == inflight[t]
           results == CollectResults(vs, r.found, r.k, r.types)
       IN  inflight' = [inflight EXCEPT
                            ![t] = IF r.op = "search" \/ results = <<>>
                                   THEN Done(r, results, FALSE)
                                   ELSE [r EXCEPT !.pc = "ranking",
                                                  !.results = results]]
    /\ UNCHANGED <<vs, disk, embeddings_data, last, cands>>

\* (mutation of StoreAfterFilter: the two flags are set on the entity
\* record the result dict refers to, which is the record in the metadata)
StoreAfterFilterOnRecords(st, projects, user_data) ==
    LET flags(project) ==
            LET f == FilterProject(project, GetUserPreferences(user_data)).project
            IN  [type_mismatch |-> f.type_mismatch,
                 location_mismatch |-> f.location_mismatch]
        hits(md) == {j \in 1..Len(projects) :
                        projects[j].entity_id = md.entity_id}
    IN  [st EXCEPT !.metadata =
            [i \in 1..Len(st.metadata) |->
                IF hits(st.metadata[i]) = {} THEN st.metadata[i]
                ELSE [st.metadata[i] EXCEPT
                         !.original_data =
                             flags(projects[CHOOSE j \in hits(st.metadata[i]) : TRUE])
                             @@ @]]]

\* lines 95-109: the filter sets '_type_mismatch' and '_location_mismatch'
\* on the result dict search built for this request; the entity record it
\* refers to ('original_data', shared with the metadata) is only read
StoreAfterFilter(st, projects, user_data) == st

\* lines 297-339: the results are filtered, scored and ranked;
\* find_recommendations returns
Rank(t) ==
    /\ inflight[t].pc = "ranking"
    /\ LET r == inflight[t]
           ranked == RankProjects(r.results, r.user_data, r.args[3])
       IN  /\ inflight' = [inflight EXCEPT
                               ![t] = Done(r, ranked.out, ranked.raises)]
           /\ vs' = StoreAfterFilter(vs, r.results, r.user_data)
    /\ UNCHANGED <<disk, embeddings_data, last, cands>>

\* the caller has taken the result
Finish(t) ==
    /\ inflight[t].pc = "done"
    /\ inflight' = [inflight EXCEPT ![t] = NoRequest]
    /\ UNCHANGED <<vs, disk, embeddings_data, last, cands>>

NextConc ==
    \E t \in Threads :
        \/ \E q \in Queries, k \in 1..MaxK, types \in TypeFilters :
               StartSearch(t, q, k, types)
        \/ \E u \in UserIds, ka \in KindArgs, k \in 1..MaxTopK :
               StartFind(t, u, ka, k)
        \/ IndexSearch(t)
        \/ Collect(t)
        \/ Rank(t)
        \/ Finish(t)

SpecConc == InitConc /\ [][NextConc]_vars

\* what the query a thread has finished returns when it runs alone
Alone(r) ==
    IF r.op = "search"
    THEN [raises |-> FALSE, out |-> Search(vs, r.args[1], r.args[2], r.args[3])]
    ELSE FindRecommendations(vs, embeddings_data, r.args[1], r.args[2][1],
                             r.args[2][2], r.args[3])

\* every finished query has returned what it returns when run alone
SameAsAlone ==
    \A t \in Threads :
        inflight[t].pc = "done" =>
            /\ inflight[t].out = Alone(inflight[t]).out
            /\ inflight[t].raises = Alone(inflight[t]).raises

\* C14: while searches and find_recommendations run concurrently on a built
\* store, no step of any of them changes the stored vectors, the metadata
\* list with its entity records, the id->position map or the engine's
\* records, and every query returns the same result as when it runs alone.
C14_QueriesArePureReads ==
    /\ []SameAsAlone
    /\ [][vs' = vs /\ embeddings_data' = embeddings_data]_vars

\* a find_recommendations has returned recommendations, flags written in
\* between, while the other thread is in the middle of a search that reads
\* the same entries
C14_Witness ==
    /\ inflight["t1"].pc = "done"
    /\ inflight["t1"].op = "find_recommendations"
    /\ Len(inflight["t1"].out) = 2
    /\ inflight["t2"].pc = "collecting"
    /\ inflight["t2"].op = "search"
    /\ \E i \in 1..Len(inflight["t2"].found) :
           /\ inflight["t2"].found[i].idx >= 0
           /\ vs.metadata[inflight["t2"].found[i].idx + 1].entity_id
                = inflight["t1"].out[1].project_id

----------------------------------------------------------------------------
(* The filter on one candidate: every shape of the applicantTypes field,   *)
(* every place, every kind of seeker.                                      *)

\* the seekers, and one whose declared type the type table does not know
TypeSeekers == Seekers \cup {DataOf("F")}

\* the applicantTypes fields: missing, null, lists, JSON texts of lists,
\* texts that are not JSON, JSON texts of a string, a number and null
ApplicantTypesFields ==
    {ATAbsent, ATNull, ATList(<<>>), ATList(<<"student">>),
     ATList(<<"research">>), ATList(<<"freelancer">>),
     ATStr("[\"student\"]"), ATStr("[]"), ATStr("student, professional"),
     ATStr(""), ATStr("\"student\""), ATStr("7"), ATStr("null")}

TypeCands ==
    {Candidate(100, Rec(Absent, location, status, at, delivery, Absent, {},
                        Absent)) :
        location \in {Absent, "Romania", "other"},
        status \in {"active", "cancelled"},
        at \in ApplicantTypesFields,
        delivery \in {Absent, "online-virtual"}}

InitTypes ==
    /\ vs = NewStore
    /\ disk = NoDisk
    /\ embeddings_data = <<>>
    /\ last = Idle
    /\ cands \in {<<c>> : c \in TypeCands}
    /\ inflight = NoRequests

NextTypes ==
    \/ \E u \in TypeSeekers : FilterCall(u)
    \/ Return

SpecTypes == InitTypes /\ [][NextTypes]_vars

\* the candidate and the seeker of the filter call that has just returned
FilterCand == last.args[1][1]
FilterPrefs == GetUserPreferences(last.args[2])

\* C15 (as claimed): a seeker without a location (profile location 'any') is
\* never flagged location_mismatch and a seeker without a declared type
\* (profile type 'unknown') is never flagged type_mismatch, whatever the
\* candidate.
C15_SentinelsAreFlexible ==
    (last.op = "filter" /\ ~last.raises) =>
        \A i \in 1..Len(last.out) :
            /\ FilterPrefs.location = "any" => ~last.out[i].location_mismatch
            /\ FilterPrefs.user_type = "unknown" => ~last.out[i].type_mismatch

\* the applicantTypes field of the candidate is a string that is not the
\* JSON encoding of a list
NotAJsonList ==
    /\ last.op = "filter"
    /\ FilterCand.original_data.applicantTypes.kind = "str"
    /\ LET parsed == JsonLoads(FilterCand.original_data.applicantTypes.text)
       IN  ~(parsed.ok /\ parsed.value.kind = "list")

\* C16 (as claimed): for a candidate whose applicantTypes field is a string
\* that is not the JSON encoding of a list the filter does not raise, does
\* not set type_mismatch, and keeps the candidate exactly when it is active.
C16_MalformedTypesAreEmpty ==
    NotAJsonList =>
        /\ ~last.raises
        /\ Len(last.out) = (IF IsActive(FilterCand.original_data) THEN 1 ELSE 0)
        /\ \A i \in 1..Len(last.out) : ~last.out[i].type_mismatch

\* the candidate's applicantTypes field is a list, the JSON text of a list,
\* or something the filter reads as the empty list (missing, null, not JSON)
ParsesToList ==
    /\ last.op = "filter"
    /\ ~NotAJsonList \/ ~JsonLoads(FilterCand.original_data.applicantTypes.text).ok

\* the list of eligible applicant types of the candidate of the call
EligibleTypes ==
    LET raw == FilterCand.original_data.applicantTypes
    IN  IF raw.kind = "list" THEN raw.items
        ELSE IF raw.kind = "str" /\ JsonLoads(raw.text).ok
        THEN JsonLoads(raw.text).value.items
        ELSE <<>>

\* the applicant-type strings the table of lines 50-75 gives for the seeker
\* of the call
CompatibleSet ==
    {UserCompatibleTypes(FilterPrefs.user_type)[i] :
        i \in 1..Len(UserCompatibleTypes(FilterPrefs.user_type))}

\* C19: the filter sets type_mismatch on a candidate iff its list of
\* eligible applicant types is non-empty and holds none of the strings of the
\* seeker's compatible set; with an empty or missing list it is never set.
C19_TypeMismatchIff ==
    (ParsesToList /\ IsActive(FilterCand.original_data)) =>
        /\ ~last.raises
        /\ Len(last.out) = 1
        /\ last.out[1].type_mismatch <=>
               /\ EligibleTypes # <<>>
               /\ \A i \in 1..Len(EligibleTypes) :
                      EligibleTypes[i] \notin CompatibleSet

\* a candidate whose list came as JSON text was flagged for one seeker
C19_Witness ==
    /\ ParsesToList
    /\ FilterCand.original_data.applicantTypes = ATStr("[\"student\"]")
    /\ FilterPrefs.user_type = "publicInstitution"
    /\ Len(last.out) = 1
    /\ last.out[1].type_mismatch

\* the keys of type_mapping (lines 50-75)
TableKeys ==
    {"student/early-career", "professional/consultant", "researcher/academic",
     "entrepreneur/inovator", "privateOrganisation", "publicInstitution",
     "startup", "non_profit", "professional", "student", "research_center",
     "company", "entrepreneur", "research", "government_agency",
     "academic_institution", "unknown"}

\* the filter has just returned an active candidate with a list of eligible
\* types to a seeker whose declared type is not a key of the table
SeekerTypeNotInTable ==
    /\ ParsesToList
    /\ IsActive(FilterCand.original_data)
    /\ FilterPrefs.user_type \notin TableKeys

\* C20 (as claimed): for a seeker whose declared type is not a key of the
\* table, type_mismatch is decided with the compatible set of the type
\* 'unknown'.
C20_UnknownTypeUsesGenericSet ==
    SeekerTypeNotInTable =>
        /\ Len(last.out) = 1
        /\ last.out[1].type_mismatch <=>
               /\ EligibleTypes # <<>>
               /\ \A i \in 1..Len(EligibleTypes) :
                      ~InList(EligibleTypes[i], UserCompatibleTypes("unknown"))

\* C20 (amended): for a seeker whose declared type is not a key of the
\* table, the compatible set is the declared type in lower case and nothing
\* else: type_mismatch is set iff the list of eligible types is non-empty and
\* does not hold that string.
C20_UnknownTypeUsesOwnName ==
    SeekerTypeNotInTable =>
        /\ Len(last.out) = 1
        /\ last.out[1].type_mismatch <=>
               /\ EligibleTypes # <<>>
               /\ ~InList(Lower(FilterPrefs.user_type), EligibleTypes)

\* the seeker of type 'Freelancer' met a candidate open to 'freelancer' only,
\* which is not flagged
C20_Witness ==
    /\ SeekerTypeNotInTable
    /\ FilterPrefs.user_type = "Freelancer"
    /\ EligibleTypes = <<"freelancer">>
    /\ Len(last.out) = 1
    /\ ~last.out[1].type_mismatch

----------------------------------------------------------------------------
(* Properties of generate_match_reasons and of the stored vectors *)

\* the reasons in the order of their priority, strongest wording first
\* within a group
ReasonGroups ==
    <<{"Strong skill and expertise alignment", "Good skill compatibility"},
      {"Perfect organizational fit", "Perfect fit for your profile",
       "Compatible applicant profile"},
      {"Matches your stated preferences", "Aligns with your interests"},
      {"Flexible delivery options available"},
      {"Good duration for student schedule"},
      {"Funded opportunity"}>>

\* the priority group of a reason (0 for the generic one)
GroupOf(reason) ==
    IF \E g \in 1..Len(ReasonGroups) : reason \in ReasonGroups[g]
    THEN CHOOSE g \in 1..Len(ReasonGroups) : reason \in ReasonGroups[g]
    ELSE 0

\* the priority groups that apply to a recommendation, read off its score
\* breakdown, the candidate and the seeker
Applies(rec, project_data, user_data) ==
    {g \in 1..6 :
        \/ g = 1 /\ rec.score_breakdown.semantic_similarity > 50
        \/ g = 2 /\ rec.score_breakdown.applicant_type_match > 60
        \/ g = 3 /\ rec.score_breakdown.project_type_alignment > 80
        \/ g = 4 /\ Get(project_data, "delivery", "in-person")
                        \in {"online-virtual", "hybrid"}
        \/ g = 5 /\ Contains("student", GetUserPreferences(user_data).user_type)
                 /\ Get(project_data, "duration", "unknown") = "short-term"
        \/ g = 6 /\ project_data.budget \notin {Absent, "", "Not specified"}}

\* the k smallest members of a set of numbers
RECURSIVE Smallest(_, _)
Smallest(set, k) ==
    IF k = 0 \/ set = {} THEN {}
    ELSE LET m == CHOOSE x \in set : \A y \in set : x <= y
         IN  {m} \cup Smallest(set \ {m}, k - 1)

\* C17: generate_match_reasons returns between 1 and 4 reasons, in the order
\* semantic strength, type match, preference alignment, delivery, student
\* duration, budget; the generic 'Matches your profile' exactly when none of
\* these applies; and of more than four that apply the four of highest
\* priority.
C17_ReasonsByPriority ==
    last.op = "rank" =>
        \A i \in 1..Len(last.out) :
            LET reasons == last.out[i].match_reasons
                applies == Applies(last.out[i], last.args[1][1].original_data,
                                   last.args[2])
            IN  /\ Len(reasons) >= 1
                /\ Len(reasons) <= 4
                /\ \A a, b \in 1..Len(reasons) :
                       a < b => GroupOf(reasons[a]) < GroupOf(reasons[b])
                /\ reasons = <<"Matches your profile">> <=> applies = {}
                /\ applies # {} =>
                       {GroupOf(reasons[a]) : a \in 1..Len(reasons)}
                           = Smallest(applies, 4)

\* all six reasons applied to a recommendation and the first four were kept
C17_Witness ==
    /\ last.op = "rank"
    /\ Len(last.out) = 1
    /\ Applies(last.out[1], last.args[1][1].original_data, last.args[2])
         = 1..6
    /\ last.out[1].match_reasons =
           <<"Strong skill and expertise alignment",
             "Perfect fit for your profile",
             "Matches your stated preferences",
             "Flexible delivery options available">>

\* a stored vector of L2 norm 1 (its components are in units of 1/Scale)
UnitNorm(row) == Dot(row, row) = Scale * Scale

----------------------------------------------------------------------------
(* Further properties of the filter and the scorer *)

FindSeeker == FindUser(ItemsOfKind(embeddings_data, FindKind), FindUserId)

\* the recommendations of that call before ranking: one for each of the
\* first 2 * top_k search hits that survive the filter, in search order
FindScored ==
    LET survivors == SelectSeq(FindSearched,
                               LAMBDA c : IsActive(c.original_data))
        scored == Prefix(survivors, 2 * FindTopK)
        user_data == FindSeeker.item.original_data
    IN  [j \in 1..Len(scored) |->
            Recommendation(FilterProject(scored[j],
                                         GetUserPreferences(user_data)).project,
                           user_data)]

\* C22: find_recommendations for a stored seeker searches 3 * top_k
\* project_calls, scores the first min(2 * top_k, n) of the n hits that
\* survive the filter, in search order, and returns the top_k of highest final
\* score among them; every recommendation is a stored project_calls entry
\* whose status is active or empty, never the seeker and never another
\* individual or organization.
C22_PipelineRecommendsActiveProjects ==
    (last.op = "find_recommendations" /\ ~last.raises /\ FindSeeker.found) =>
        /\ Len(last.out)
             = (IF Len(FindScored) < FindTopK THEN Len(FindScored) ELSE FindTopK)
        /\ \A i \in 1..Len(last.out) :
               \E j \in 1..Len(FindScored) : last.out[i] = FindScored[j]
        /\ \A j \in 1..Len(FindScored) :
               (\A i \in 1..Len(last.out) : last.out[i] # FindScored[j]) =>
                   \A i \in 1..Len(last.out) :
                       last.out[i].match_score >= FindScored[j].match_score
        /\ \A i \in 1..Len(last.out) :
               /\ last.out[i].project_id # FindUserId
               /\ \E m \in 1..Len(last.store.metadata) :
                      /\ last.store.metadata[m].entity_id = last.out[i].project_id
                      /\ last.store.metadata[m].entity_type = "project_calls"
                      /\ IsActive(last.store.metadata[m].original_data)
               /\ ~\E m \in 1..Len(last.store.metadata) :
                      /\ last.store.metadata[m].entity_id = last.out[i].project_id
                      /\ last.store.metadata[m].entity_type # "project_calls"

\* the store holds the seeker itself and a cancelled project next to active
\* ones, and the one recommendation asked for is not the most similar hit
C22_Witness ==
    /\ last.op = "find_recommendations"
    /\ FindSeeker.found
    /\ FindTopK = 1
    /\ Len(last.out) = 1
    /\ Len(FindScored) >= 2
    /\ last.out[1].project_id # FindSearched[1].entity_id
    /\ \E m \in 1..Len(last.store.metadata) :
           last.store.metadata[m].entity_id = FindUserId
    /\ \E m \in 1..Len(last.store.metadata) :
           /\ last.store.metadata[m].entity_type = "project_calls"
           /\ ~IsActive(last.store.metadata[m].original_data)

\* the seeker and the candidate of the ranking that has just returned are
\* at different places, neither of them 'other'
RankedElsewhere ==
    LET seeker == GetUserPreferences(last.args[2]).location
        place == Get(last.args[1][1].original_data, "location", "any")
    IN  seeker # place /\ seeker # "other" /\ place # "other"

\* C23: in the output of find_recommendations the delivery sub-score is 0.9
\* for an online-virtual or hybrid candidate, and for any other candidate 0.7,
\* or 0.7 * 0.7 = 0.49 when the filter flagged its location; 0.9 * 0.7 = 0.63
\* never occurs, because the filter flags no online or hybrid candidate.
C23_DeliveryScoreValues ==
    /\ last.op \in {"rank", "find_recommendations"} =>
           \A i \in 1..Len(last.out) :
               last.out[i].score_breakdown.delivery_compatibility
                   \in {90, 70, 49}
    /\ last.op = "rank" =>
           \A i \in 1..Len(last.out) :
               last.out[i].score_breakdown.delivery_compatibility =
                   IF Get(last.args[1][1].original_data, "delivery", "in-person")
                          \in {"online-virtual", "hybrid"} THEN 90
                   ELSE IF RankedElsewhere THEN 49
                   ELSE 70

\* a hybrid candidate at another place than the seeker was ranked and its
\* delivery sub-score is 0.9
C23_Witness ==
    /\ last.op = "rank"
    /\ Len(last.out) = 1
    /\ RankedElsewhere
    /\ GetUserPreferences(last.args[2]).location = "Romania"
    /\ last.args[1][1].original_data.delivery = "hybrid"
    /\ last.out[1].score_breakdown.delivery_compatibility = 90

----------------------------------------------------------------------------
(* Preferences: get_user_preferences on every 'preferences' dict, and the  *)
(* scorer for seekers of every combination of preferences.                 *)

\* the 'preferences' dicts: each key holds True, holds False or is missing
RawPreferences == [PrefKeys -> {"True", "False", Absent}]

\* a seeker record without type and location whose 'preferences' is raw
SeekerWith(raw) ==
    Rec(Absent, Absent, Absent, ATAbsent, Absent, Absent, TruthyKeys(raw),
        Absent)

\* unflagged candidates of every project type
AlignCands ==
    {[entity_id |-> "id_p", entity_type |-> "project_calls",
      similarity_score |-> 50,
      original_data |-> Rec(type, Absent, "active", ATAbsent, Absent, Absent,
                            {}, Absent),
      type_mismatch |-> FALSE, location_mismatch |-> FALSE] :
        type \in {Absent, "funding-opportunity", "fellowship",
                  "research-funding", "collaboration"}}

InitPrefs ==
    /\ vs = NewStore
    /\ disk = NoDisk
    /\ embeddings_data = <<>>
    /\ last = Idle
    /\ cands \in {<<c>> : c \in AlignCands}
    /\ inflight = NoRequests

\* matching_engine.get_user_preferences(user_data)
PrefsCall(raw) ==
    /\ last = Idle
    /\ last' = Call("get_user_preferences", <<raw>>, FALSE,
                    <<GetUserPreferences(SeekerWith(raw))>>, FALSE, vs)
    /\ UNCHANGED <<vs, disk, embeddings_data, cands, inflight>>

NextPrefs ==
    \/ \E raw \in RawPreferences : PrefsCall(raw)
    \/ \E raw \in RawPreferences : ScoreCall(SeekerWith(raw))
    \/ Return

SpecPrefs == InitPrefs /\ [][NextPrefs]_vars

\* the seeking tags and the project type of the scoring that has just
\* returned
ScoredSeeking == GetUserPreferences(last.args[2]).seeking
ScoredProjectType == Get(last.args[1].original_data, "type", "unknown")

\* C24: the type_alignment sub-score is that of the first rule that applies:
\* 1.0 for research with a 'funding-opportunity' project, 1.0 for grant with
\* a 'fellowship' or 'funding' project, 0.9 for collaboration, 0.9 for funding
\* with a 'funding' project, else 0.7; a rule giving 1.0 wins over one giving
\* 0.9 and the value is one of 0.7, 0.9, 1.0.
C24_AlignmentFirstRule ==
    last.op = "score" =>
        LET a == last.out[1].project_type_alignment
            r1 == /\ InList("research", ScoredSeeking)
                  /\ Contains("funding-opportunity", ScoredProjectType)
            r2 == /\ InList("grant", ScoredSeeking)
                  /\ \/ Contains("fellowship", ScoredProjectType)
                     \/ Contains("funding", ScoredProjectType)
            r3 == InList("collaboration", ScoredSeeking)
            r4 == /\ InList("funding", ScoredSeeking)
                  /\ Contains("funding", ScoredProjectType)
        IN  /\ a \in {70, 90, 100}
            /\ (r1 \/ r2) => a = 100
            /\ (~r1 /\ ~r2 /\ (r3 \/ r4)) => a = 90
            /\ (~r1 /\ ~r2 /\ ~r3 /\ ~r4) => a = 70

\* a seeker after grants and collaborations met a fellowship: the grant rule
\* won over the collaboration rule
C24_Witness ==
    /\ last.op = "score"
    /\ InList("grant", ScoredSeeking)
    /\ InList("collaboration", ScoredSeeking)
    /\ ScoredProjectType = "fellowship"
    /\ last.out[1].project_type_alignment = 100

\* the tags a list of seeking tags holds
TagsOf(seeking) == {seeking[i] : i \in 1..Len(seeking)}

\* C25: get_user_preferences adds collaboration for a truthy collaborations,
\* research and grant for a truthy grantFundedProjects, funding for a truthy
\* funding, consulting for a truthy consulting, opportunity for a truthy
\* opportunities, and nothing for a missing or falsy field; the tags are
\* among these six, research is there iff grant is, and without a truthy
\* field the list is empty.
C25_SeekingTags ==
    last.op = "get_user_preferences" =>
        LET raw == last.args[1]
            tags == TagsOf(last.out[1].seeking)
        IN  /\ "collaboration" \in tags <=> raw["collaborations"] = "True"
            /\ "research" \in tags <=> raw["grantFundedProjects"] = "True"
            /\ "grant" \in tags <=> raw["grantFundedProjects"] = "True"
            /\ "funding" \in tags <=> raw["funding"] = "True"
            /\ "consulting" \in tags <=> raw["consulting"] = "True"
            /\ "opportunity" \in tags <=> raw["opportunities"] = "True"
            /\ tags \subseteq {"collaboration", "research", "grant", "funding",
                               "consulting", "opportunity"}
            /\ Cardinality(tags) = Len(last.out[1].seeking)
            /\ (\A key \in PrefKeys : raw[key] # "True") =>
                   last.out[1].seeking = <<>>

\* grantFundedProjects is True, funding is False and collaborations is
\* missing: the tags are research and grant
C25_Witness ==
    /\ last.op = "get_user_preferences"
    /\ last.args[1]["grantFundedProjects"] = "True"
    /\ last.args[1]["funding"] = "False"
    /\ last.args[1]["collaborations"] = Absent
    /\ last.args[1]["consulting"] = Absent
    /\ last.args[1]["opportunities"] = "False"
    /\ last.out[1].seeking = <<"research", "grant">>

----------------------------------------------------------------------------
(* The two type tables against each other: seekers of every declared type  *)
(* and candidates open to every applicant type either table names.         *)

\* the applicant-type strings of type_mapping (lines 50-75)
ApplicantTypeNames ==
    {"student", "student/early-career", "early-career", "professional",
     "consultant", "professional/consultant", "research", "researcher",
     "academic", "academic_institution", "entrepreneur", "startup", "company",
     "inovator", "organization", "private", "government_agency", "public",
     "institution", "non_profit", "ngo", "nonprofit", "research_center",
     "university"}

\* search hits whose applicantTypes is a list of one type, or of a type and
\* 'university', or empty, or missing
TableCands ==
    {Candidate(100, Rec(Absent, Absent, "active", at, Absent, Absent, {},
                        Absent)) :
        at \in {ATList(<<t>>) : t \in ApplicantTypeNames}
               \cup {ATList(<<"university", t>>) : t \in ApplicantTypeNames}
               \cup {ATList(<<>>), ATAbsent}}

\* seekers of every type of the table, of a type outside it, and of none
TableSeekers ==
    {Rec(type, Absent, Absent, ATAbsent, Absent, Absent, {}, Absent) :
        type \in TableKeys \cup {"Freelancer", Absent}}

InitTable ==
    /\ vs = NewStore
    /\ disk = NoDisk
    /\ embeddings_data = <<>>
    /\ last = Idle
    /\ cands \in {<<c>> : c \in TableCands}
    /\ inflight = NoRequests

NextTable ==
    \/ \E u \in TableSeekers : FilterCall(u)
    \/ \E u \in TableSeekers, k \in 1..MaxTopK : RankCall(u, k)
    \/ Return

SpecTable == InitTable /\ [][NextTable]_vars

\* the filter flags the candidate of the ranking that has just returned
RankedFlagged ==
    FilterProject(last.args[1][1],
                  GetUserPreferences(last.args[2])).project.type_mismatch

\* the scorer finds an exact match for it
RankedExact ==
    ExactTypeMatch(GetUserPreferences(last.args[2]).user_type,
                   last.args[1][1].original_data.applicantTypes)

\* C26: for every seeker type and every list of eligible applicant types, a
\* candidate the filter flags type_mismatch is no exact match for the scorer;
\* after filtering type_match is 1.0 (exact, not flagged), 0.8 (not exact,
\* not flagged) or 0.48 (flagged), never 0.6.
C26_FlaggedNeverExact ==
    /\ last.op = "filter" =>
           \A i \in 1..Len(last.out) :
               last.out[i].type_mismatch =>
                   ~ExactTypeMatch(FilterPrefs.user_type,
                                   last.out[i].original_data.applicantTypes)
    /\ last.op = "rank" =>
           \A i \in 1..Len(last.out) :
               LET type_match == last.out[i].score_breakdown.applicant_type_match
               IN  /\ type_match \in {100, 80, 48}
                   /\ type_match = 48 <=> RankedFlagged
                   /\ type_match = 100 <=> (RankedExact /\ ~RankedFlagged)

\* a publicInstitution met a candidate open to universities and
\* professionals (exact match, 1.0), and the table also holds flagged
\* candidates for it
C26_Witness ==
    /\ last.op = "rank"
    /\ GetUserPreferences(last.args[2]).user_type = "publicInstitution"
    /\ last.args[1][1].original_data.applicantTypes
         = ATList(<<"university", "professional">>)
    /\ Len(last.out) = 1
    /\ last.out[1].score_breakdown.applicant_type_match = 100
    /\ FilterProject(Candidate(100, Rec(Absent, Absent, "active",
                                        ATList(<<"student">>), Absent, Absent,
                                        {}, Absent)),
                     GetUserPreferences(last.args[2])).project.type_mismatch

----------------------------------------------------------------------------
(* Further properties of the store *)

\* the store of the call that has just returned is built, every add on it
\* succeeded, and its entries have distinct ids
BuiltWithDistinctIds ==
    /\ last.store.is_built
    /\ Len(last.store.metadata) = Len(last.store.index.xb)
    /\ \A i, j \in 1..Len(last.store.metadata) :
           last.store.metadata[i].entity_id = last.store.metadata[j].entity_id
               => i = j

\* C27 (as claimed): on a built store with distinct ids, search returns only
\* stored entries and each of them at most once, so no more results than
\* there are stored entries of the kinds asked for, and find_recommendations
\* lists no project id twice.
C27_NoEntryTwice ==
    BuiltWithDistinctIds =>
        /\ last.op = "search" =>
               /\ \A i, j \in 1..Len(last.out) :
                      last.out[i].entity_id = last.out[j].entity_id => i = j
               /\ \A i \in 1..Len(last.out) :
                      \E m \in 1..Len(last.store.metadata) :
                          last.store.metadata[m].entity_id = last.out[i].entity_id
               /\ Len(last.out) <=
                      Cardinality({m \in 1..Len(last.store.metadata) :
                          \/ last.args[3] = {}
                          \/ last.store.metadata[m].entity_type \in last.args[3]})
        /\ last.op = "find_recommendations" =>
               \A i, j \in 1..Len(last.out) :
                   last.out[i].project_id = last.out[j].project_id => i = j

\* the sum of the counts of an entity_type_counts dict
RECURSIVE SumCounts(_)
SumCounts(counts) ==
    IF counts = {} THEN 0
    ELSE LET c == CHOOSE x \in counts : TRUE
         IN  c[2] + SumCounts(counts \ {c})

FilesIncomplete ==
    \/ ~disk.has_index
    \/ ~disk.has_metadata
    \/ ~disk.index_readable
    \/ ~disk.metadata_readable

\* C29 (as claimed): load_index from files of which the index file or the
\* metadata file is missing or unreadable returns False and leaves the
\* store's index, metadata list, id->position map, dimension and built flag
\* as they were before the call.
C29_FailedLoadLeavesStore ==
    /\ (last.op = "load" /\ FilesIncomplete) =>
           /\ ~last.ret
           /\ vs = last.store
    /\ (last.op = "load_fresh" /\ FilesIncomplete) =>
           /\ ~last.ret
           /\ last.store = NewStore

----------------------------------------------------------------------------
(* Encodings: the same list of eligible types as a list and as the JSON    *)
(* string of the list, ranked side by side.                                *)

\* the lists of eligible types that are given in both encodings
EncodedLists ==
    {<<>>, <<"student">>, <<"professional">>, <<"research">>,
     <<"student/early-career">>, <<"professional", "student">>}

\* json.dumps of a list of the model
JsonDumps(items) ==
    CASE items = <<>> -> "[]"
      [] items = <<"student">> -> "[\"student\"]"
      [] items = <<"professional">> -> "[\"professional\"]"
      [] items = <<"research">> -> "[\"research\"]"
      [] items = <<"student/early-career">> -> "[\"student/early-career\"]"
      [] items = <<"professional", "student">> ->
             "[\"professional\", \"student\"]"

\* two search hits for projects that differ in the encoding of applicantTypes
\* only
EncodingCands ==
    {<<[Candidate(100, Rec(Absent, Absent, "active", ATList(items), Absent,
                           Absent, {}, Absent))
            EXCEPT !.entity_id = "id_list"],
       [Candidate(100, Rec(Absent, Absent, "active", ATStr(JsonDumps(items)),
                           Absent, Absent, {}, Absent))
            EXCEPT !.entity_id = "id_json"]>> :
        items \in EncodedLists}

InitEncoding ==
    /\ vs = NewStore
    /\ disk = NoDisk
    /\ embeddings_data = <<>>
    /\ last = Idle
    /\ cands \in EncodingCands
    /\ inflight = NoRequests

NextEncoding ==
    \/ \E u \in TableSeekers, k \in 1..MaxTopK : RankCall(u, k)
    \/ Return

SpecEncoding == InitEncoding /\ [][NextEncoding]_vars

\* C30 (as claimed): for every seeker, the scorer gives a candidate whose
\* eligible types are a list and a candidate whose eligible types are the
\* JSON string of that same list the same type sub-score.
C30_SameTypeScoreInBothEncodings ==
    (/\ last.op = "rank"
     /\ Len(last.args[1]) = 2
     /\ last.args[1][2].original_data.applicantTypes.kind = "str"
     /\ JsonLoads(last.args[1][2].original_data.applicantTypes.text).value
            = last.args[1][1].original_data.applicantTypes) =>
        \A i, j \in 1..Len(last.out) :
            last.out[i].score_breakdown.applicant_type_match
                = last.out[j].score_breakdown.applicant_type_match

====
